---- MODULE Spec2Model ----
(***************************************************************************)
(* Model of the Vulkan GPU-memory allocator of ddnet-rs                    *)
(* (lib/graphics-backend/src/backends/vulkan/vulkan_allocator.rs).         *)
(*                                                                         *)
(* The allocator is shared as Arc<parking_lot::Mutex<VulkanAllocator>>;    *)
(* every method takes &mut self, so a thread first takes the lock, runs    *)
(* the call, and releases the lock when the call has returned.  The device *)
(* steps of a flush (range flush, begin, copy, end, reset fence, submit,   *)
(* descriptor allocation) are separate steps of the calling thread, and    *)
(* the device retires a submission asynchronously.                         *)
(***************************************************************************)
EXTENDS Integers, Sequences, FiniteSets, TLC

\* ------------------------------------------------------------------------
\* Bounds of the model
\* ------------------------------------------------------------------------
\* number of entries registered at the same time (all three maps together)
MaxLive == 2
\* largest allocation, in allocation units
MaxSize == 1
\* size class of a page of a memory cache, in allocation units (8 MiB)
PageSize == 2
\* pages a memory cache holds at most
MaxPages == 3
\* entries registered at the same time where only the memory caches are
\* looked at
MaxPagesLive == 3
\* largest allocation there (one unit more than a page of the size class)
MaxPagesSize == 3
\* capacity of the pool DeviceDescriptorPools::new creates (MaxTextures)
FirstPoolSize == 3
\* default_alloc_size of the shader storage descriptor pools (128)
DefaultAllocSize == 2
\* largest set_count of a direct descriptor set request
MaxSetCount == 6
\* descriptor set groups held by callers at the same time
MaxHeldGroups == 1
\* the largest byte of the memory a caller hands over
MaxByte == 1
\* the largest memory_offset and single_buffer_instance_size of a request
\* for bound descriptor sets
MaxMemoryOffset == 1
MaxInstanceSize == 2

Threads == {"t1", "t2"}
NoThread == "none"

Kinds == {"buffer", "shader_storage", "image"}
\* memory_type_bits the device reports for an image
MemTypeBits == {1}
\* the largest memory_type_bits a device with several memory types reports
MaxMemTypeBits == 2

Max(a, b) == IF a >= b THEN a ELSE b
Min(a, b) == IF a <= b THEN a ELSE b

VARIABLES
    \* VulkanAllocatorPointerWork: host pointer -> cache entry
    mapped_memory_cache,
    mapped_memory_cache_shader_storage,
    mapped_memory_cache_image,
    \* the memory caches (pages and the blocks carved from them)
    staging_buffer_cache,
    staging_buffer_cache_image,
    vertex_buffer_cache,
    shader_storage_cache,
    image_buffer_caches,
    \* DeviceDescriptorPools.pools: sequence of [size, cur_size]
    shader_storage_descr_pools,
    \* descriptor set groups returned to direct callers and still alive
    held_sets,
    \* the last direct descriptor set request and what it returned
    descr_call,
    \* the one command buffer and the one fence of the allocator
    command_buffers,
    fence,
    \* holder of the parking_lot::Mutex around the allocator
    lock,
    \* per thread: position, the call it is in, the value the call returned
    pc,
    call,
    ret,
    \* device steps performed by the call that holds the lock
    trace

registry == <<mapped_memory_cache, mapped_memory_cache_shader_storage,
              mapped_memory_cache_image>>
caches == <<staging_buffer_cache, staging_buffer_cache_image,
            vertex_buffer_cache, shader_storage_cache, image_buffer_caches>>
descr == <<shader_storage_descr_pools, held_sets, descr_call>>
device == <<command_buffers, fence>>
threads == <<lock, pc, call, ret>>
vars == <<registry, caches, descr, device, threads, trace>>

\* ------------------------------------------------------------------------
\* Memory cache: pages of a size class, blocks are sub-ranges of a page
\* ------------------------------------------------------------------------
EmptyCache == [pages |-> <<>>, live |-> {}]

Overlap(b1, b2) ==
    /\ b1.page = b2.page
    /\ b1.off < b2.off + b2.size
    /\ b2.off < b1.off + b1.size

\* the ranges of page p that can hold `size`
RangesOf(cache, p, size) ==
    {[page |-> p, off |-> o, size |-> size] : o \in 0..(cache.pages[p] - size)}

\* a mutant of Fits: a range is taken whether it is free or not
FitsAnyRange(cache, size) ==
    UNION {RangesOf(cache, p, size) :
              p \in {q \in 1..Len(cache.pages) : cache.pages[q] = PageSize}}

\* a mutant of Fits: the pages made for oversized requests are searched too
FitsAnyPage(cache, size) ==
    {b \in UNION {RangesOf(cache, p, size) : p \in 1..Len(cache.pages)} :
        \A l \in cache.live : ~Overlap(b, l)}

\* the free ranges that can hold `size` in the existing pages of the size
\* class (a page made for an oversized request is not one of them)
Fits(cache, size) ==
    {b \in UNION {RangesOf(cache, p, size) :
                     p \in {q \in 1..Len(cache.pages) : cache.pages[q] = PageSize}} :
        \A l \in cache.live : ~Overlap(b, l)}

\* the possible results of acquiring a block: carved from an existing page
\* when one has room, otherwise from a new page (none when the cache holds
\* MaxPages pages already)
Acquire(cache, size) ==
    IF Fits(cache, size) # {}
    THEN {[cache |-> [cache EXCEPT !.live = @ \cup {b}], block |-> b] :
             b \in Fits(cache, size)}
    ELSE IF Len(cache.pages) >= MaxPages THEN {}
    ELSE LET b == [page |-> Len(cache.pages) + 1, off |-> 0, size |-> size]
         IN {[cache |-> [cache EXCEPT !.pages = Append(@, Max(PageSize, size)),
                                      !.live = @ \cup {b}],
              block |-> b]}

\* a mutant of Release: the range of a dropped block stays taken
ReleaseNothing(cache, b) == cache

\* a block is returned to its page when its owner is dropped
Release(cache, b) == [cache EXCEPT !.live = @ \ {b}]

\* the mapped host address of a staging block
MappedPtr(cacheName, b) == [cache |-> cacheName, page |-> b.page, off |-> b.off]

NoPtr == [cache |-> "none", page |-> 0, off |-> 0]

\* the null address: NonNull::new(mem).unwrap() panics on it
NullPtr == [cache |-> "null", page |-> 0, off |-> 0]

\* ------------------------------------------------------------------------
\* Descriptor pools
\* ------------------------------------------------------------------------
\* a mutant of NewDescriptorPools: the first pool has the default size
NewDescriptorPoolsDefault == <<[size |-> DefaultAllocSize, cur_size |-> 0]>>

\* DeviceDescriptorPools::new pushes one pool of MaxTextures sets
NewDescriptorPools == <<[size |-> FirstPoolSize, cur_size |-> 0]>>

\* allocate_descriptor_pool: push a pool of alloc_pool_size sets
allocate_descriptor_pool(pools, alloc_pool_size) ==
    Append(pools, [size |-> alloc_pool_size, cur_size |-> 0])

\* DescriptorSets::new takes `count` sets out of pool `i`
TakeSets(pools, i, count) ==
    [pools EXCEPT ![i].cur_size = @ + count]

\* dropping a DescriptorSets group gives its sets back to its pool
DropSets(pools, g) ==
    [pools EXCEPT ![g.pool].cur_size = @ - g.count]

RECURSIVE DropAll(_, _)
DropAll(pools, groups) ==
    IF groups = <<>> THEN pools
    ELSE DropAll(DropSets(pools, Head(groups)), Tail(groups))

\* the pool the for loop of get_descriptor_pool_for_alloc breaks at:
\* the first pool from pool_index_offset on that can take all of
\* cur_alloc_num or has any remaining capacity
\* a mutant of PoolHasRoom: only a pool that takes all of cur_alloc_num
PoolHasRoomForAll(pool, cur_alloc_num) ==
    pool.cur_size + cur_alloc_num < pool.size

PoolHasRoom(pool, cur_alloc_num) ==
    \/ pool.cur_size + cur_alloc_num < pool.size
    \/ pool.size - pool.cur_size > 0

FoundPools(pools, pool_index_offset, cur_alloc_num) ==
    {i \in (pool_index_offset + 1)..Len(pools) : PoolHasRoom(pools[i], cur_alloc_num)}

SetMin(S) == CHOOSE x \in S : \A y \in S : x <= y

\* a mutant of AllocatedInThisRun: the pool found is asked for all the sets
AllocatedInThisRunWhole(pool, cur_alloc_num) == cur_alloc_num

\* a mutant of AllocatedInThisRun: all that is left in the pool is taken
AllocatedInThisRunAllLeft(pool, cur_alloc_num) == pool.size - pool.cur_size

AllocatedInThisRun(pool, cur_alloc_num) ==
    IF pool.cur_size + cur_alloc_num < pool.size
    THEN cur_alloc_num
    ELSE pool.size - pool.cur_size

\* a mutant of AllocatedFromNewPool: one set is taken from the new pool
AllocatedFromNewPoolOne(default_alloc_size, cur_alloc_num) == 1

\* the sets taken from the pool that was appended:
\* std::cmp::min(default_alloc_size, cur_alloc_num)
AllocatedFromNewPool(default_alloc_size, cur_alloc_num) ==
    Min(default_alloc_size, cur_alloc_num)

\* The while loop of get_descriptor_pool_for_alloc.  `fail` numbers the
\* device call (pool creation, set allocation) that returns an error,
\* 0 when none does.  On an error the groups collected so far are dropped.
RECURSIVE get_descriptor_pool_for_alloc_loop(_, _, _, _, _)
get_descriptor_pool_for_alloc_loop(pools, cur_alloc_num, pool_index_offset, res, fail) ==
    IF cur_alloc_num <= 0
    THEN [ok |-> TRUE, pools |-> pools, res |-> res]
    ELSE
      LET found == FoundPools(pools, pool_index_offset, cur_alloc_num)
          is_found == found # {}
          descriptor_pool_index == IF is_found THEN SetMin(found) ELSE Len(pools) + 1
          pool_fails == ~is_found /\ fail = 1
          fail_sets == IF is_found \/ fail = 0 THEN fail ELSE fail - 1
          pools1 == IF is_found THEN pools
                    ELSE allocate_descriptor_pool(pools, DefaultAllocSize)
          allocated_in_this_run ==
              IF is_found
              THEN AllocatedInThisRun(pools[descriptor_pool_index], cur_alloc_num)
              ELSE AllocatedFromNewPool(DefaultAllocSize, cur_alloc_num)
          new_descr == [pool |-> descriptor_pool_index, count |-> allocated_in_this_run]
      IN IF pool_fails
         THEN [ok |-> FALSE, pools |-> DropAll(pools, res), res |-> <<>>]
         ELSE IF fail_sets = 1
         THEN [ok |-> FALSE, pools |-> DropAll(pools1, res), res |-> <<>>]
         ELSE get_descriptor_pool_for_alloc_loop(
                  TakeSets(pools1, descriptor_pool_index, allocated_in_this_run),
                  cur_alloc_num - allocated_in_this_run,
                  descriptor_pool_index,
                  Append(res, new_descr),
                  IF fail_sets = 0 THEN 0 ELSE fail_sets - 1)

get_descriptor_pool_for_alloc(pools, set_count, fail) ==
    get_descriptor_pool_for_alloc_loop(pools, set_count, 0, <<>>, fail)

\* the record of a direct request: its argument, its result, and the pools
\* it found (how many, and whether they were as constructed)
NoDescrCall == [set_count |-> 0, ok |-> FALSE, res |-> <<>>,
                pools_before |-> 0, fresh |-> FALSE]

\* create_shader_storage_descriptor_sets: the groups of
\* get_descriptor_pool_for_alloc, each bound to the buffer
create_shader_storage_descriptor_sets(pools, set_count, fail) ==
    get_descriptor_pool_for_alloc(pools, set_count, fail)

\* DescriptorSets::assign_shader_storage_buffer_to_sets and
\* assign_uniform_buffer_to_sets: the sets of the group are bound to
\* consecutive instances of the buffer from memory_offset on, and the
\* number of sets of the group is returned
assign_buffer_to_sets(descriptor, memory_offset, single_buffer_instance_size) ==
    [set_count |-> descriptor.count,
     bound |-> [j \in 1..descriptor.count |->
                   memory_offset + (j - 1) * single_buffer_instance_size]]

\* a mutant of NextCurOffset: the offset moves on by one instance
NextCurOffsetOneInstance(cur_offset, single_buffer_instance_size, set_count) ==
    cur_offset + single_buffer_instance_size

\* cur_offset += (single_buffer_instance_size * set_count)
NextCurOffset(cur_offset, single_buffer_instance_size, set_count) ==
    cur_offset + single_buffer_instance_size * set_count

\* the for loop of create_shader_storage_descriptor_sets and of
\* create_uniform_descriptor_sets over the groups: the offsets each group
\* is bound at
RECURSIVE BindDescriptors(_, _, _, _)
BindDescriptors(descriptors, memory_offset, cur_offset, single_buffer_instance_size) ==
    IF descriptors = <<>> THEN <<>>
    ELSE LET assigned == assign_buffer_to_sets(Head(descriptors),
                                               memory_offset + cur_offset,
                                               single_buffer_instance_size)
         IN <<assigned.bound>>
              \o BindDescriptors(Tail(descriptors), memory_offset,
                                 NextCurOffset(cur_offset, single_buffer_instance_size,
                                               assigned.set_count),
                                 single_buffer_instance_size)

\* create_shader_storage_descriptor_sets / create_uniform_descriptor_sets
\* as a caller of either sees it: the groups, the pools, and the offsets
\* the groups are bound at; an error of get_descriptor_pool_for_alloc is
\* returned before anything is bound
create_descriptor_sets(pools, set_count, fail, memory_offset, single_buffer_instance_size) ==
    LET r == get_descriptor_pool_for_alloc(pools, set_count, fail)
    IN [ok |-> r.ok, pools |-> r.pools, res |-> r.res,
        bound |-> IF r.ok
                  THEN BindDescriptors(r.res, memory_offset, 0, single_buffer_instance_size)
                  ELSE <<>>]

\* ------------------------------------------------------------------------
\* Pointer registry helpers
\* ------------------------------------------------------------------------
EmptyMap == [p \in {} |-> 0]
Insert(map, p, e) == [q \in (DOMAIN map) \cup {p} |-> IF q = p THEN e ELSE map[q]]
\* a mutant of Remove: the entry stays in the map
RemoveKept(map, p) == map

\* HashMap::remove
Remove(map, p) == [q \in (DOMAIN map) \ {p} |-> map[q]]

mem_block_exists(p) == p \in DOMAIN mapped_memory_cache
mem_block_shader_storage_exists(p) == p \in DOMAIN mapped_memory_cache_shader_storage
mem_block_image_exists(p) == p \in DOMAIN mapped_memory_cache_image

Registered ==
    (DOMAIN mapped_memory_cache) \cup (DOMAIN mapped_memory_cache_shader_storage)
        \cup (DOMAIN mapped_memory_cache_image)

LiveCount ==
    Cardinality(DOMAIN mapped_memory_cache)
        + Cardinality(DOMAIN mapped_memory_cache_shader_storage)
        + Cardinality(DOMAIN mapped_memory_cache_image)

\* pointers a caller passes to free and flush: the registered ones and two
\* addresses that may be unregistered (never allocated, or freed before)
StalePtrs == {[cache |-> "staging", page |-> 1, off |-> 0],
              [cache |-> "staging_image", page |-> 1, off |-> 0]}
CallerPtrs == Registered \cup StalePtrs
\* a raw pointer argument (*mut u8) may also be null
RawPtrs == CallerPtrs \cup {NullPtr}

\* Option<Arc<DescriptorSets>>
None == <<>>
Some(g) == <<g>>

\* the flush state of the entry a pointer is registered with, per map
FlushStateOf(kind, p) ==
    IF kind = "buffer" THEN mapped_memory_cache[p].is_flushed
    ELSE IF kind = "shader_storage"
    THEN mapped_memory_cache_shader_storage[p].base.is_flushed
    ELSE mapped_memory_cache_image[p].is_flushed

MapOf(kind) ==
    IF kind = "buffer" THEN mapped_memory_cache
    ELSE IF kind = "shader_storage" THEN mapped_memory_cache_shader_storage
    ELSE mapped_memory_cache_image

\* ------------------------------------------------------------------------
\* Threads and calls
\* ------------------------------------------------------------------------
NoCall == [op |-> "none", kind |-> "none", ptr |-> NoPtr, full |-> FALSE,
           prev |-> "none", probed |-> <<>>]

\* a mutant of CanLock: the call is made without the mutex
CanLockUnguarded(t) == pc[t] = "idle"

\* taking the allocator's mutex (VulkanAllocator::new wraps Self in a
\* parking_lot::Mutex; every method needs &mut self)
CanLock(t) == pc[t] = "idle" /\ lock = NoThread

\* the call of thread t has returned `r`; the guard is still held
Returns(t, c, r) ==
    /\ lock' = t
    /\ pc' = [pc EXCEPT ![t] = "ret"]
    /\ call' = [call EXCEPT ![t] = c]
    /\ ret' = [ret EXCEPT ![t] = r]

\* the call of thread t moves on to its next step
Goes(t, next) ==
    /\ pc' = [pc EXCEPT ![t] = next]
    /\ UNCHANGED <<lock, call, ret>>

\* the call of thread t (which holds the lock) fails with an error value
Fails(t) ==
    /\ pc' = [pc EXCEPT ![t] = "ret"]
    /\ ret' = [ret EXCEPT ![t] = "err"]
    /\ UNCHANGED <<lock, call>>

\* the call of thread t panics: it never returns; the guard is still held
\* until the unwinding drops it
Panics(t, c) ==
    /\ lock' = t
    /\ pc' = [pc EXCEPT ![t] = "panicked"]
    /\ call' = [call EXCEPT ![t] = c]
    /\ ret' = [ret EXCEPT ![t] = "panic"]

Init ==
    /\ mapped_memory_cache = EmptyMap
    /\ mapped_memory_cache_shader_storage = EmptyMap
    /\ mapped_memory_cache_image = EmptyMap
    /\ staging_buffer_cache = EmptyCache
    /\ staging_buffer_cache_image = EmptyCache
    /\ vertex_buffer_cache = EmptyCache
    /\ shader_storage_cache = EmptyCache
    /\ image_buffer_caches = EmptyMap
    /\ shader_storage_descr_pools = NewDescriptorPools
    /\ held_sets = <<>>
    /\ descr_call = NoDescrCall
    /\ command_buffers = "initial"
    /\ fence = "unsignaled"
    /\ lock = NoThread
    /\ pc = [t \in Threads |-> "idle"]
    /\ call = [t \in Threads |-> NoCall]
    /\ ret = [t \in Threads |-> "none"]
    /\ trace = <<>>

\* the caller drops the guard after the call returned
Return(t) ==
    /\ pc[t] = "ret"
    /\ lock = t
    /\ lock' = NoThread
    /\ pc' = [pc EXCEPT ![t] = "idle"]
    /\ call' = [call EXCEPT ![t] = NoCall]
    /\ ret' = [ret EXCEPT ![t] = "none"]
    /\ trace' = <<>>
    /\ UNCHANGED <<registry, caches, descr, device>>

\* unwinding the panicked call drops the guard; the worker thread ends and
\* another one takes its place
Unwind(t) ==
    /\ pc[t] = "panicked"
    /\ lock = t
    /\ lock' = NoThread
    /\ pc' = [pc EXCEPT ![t] = "idle"]
    /\ call' = [call EXCEPT ![t] = NoCall]
    /\ ret' = [ret EXCEPT ![t] = "none"]
    /\ trace' = <<>>
    /\ UNCHANGED <<registry, caches, descr, device>>

\* ------------------------------------------------------------------------
\* Allocation
\* ------------------------------------------------------------------------
AllocCall(kind, p, fresh) ==
    [op |-> "alloc", kind |-> kind, ptr |-> p, full |-> FALSE,
     prev |-> IF fresh THEN "absent" ELSE "live", probed |-> <<>>]

\* GraphicsBackendMemory: the allocation (caller memory `Vector` with its
\* bytes, or allocator memory `Static` with its address) and the usage
VectorAllocation(m) == [tag |-> "Vector", m |-> m]
StaticAllocation(p) == [tag |-> "Static", ptr |-> p]
GraphicsBackendMemoryNew(alloc, usage) == [alloc |-> alloc, usage |-> usage]

\* GraphicsBackendMemory::take
take(mem) == <<mem.alloc, mem.usage>>

\* no memory: the allocation function was called directly, or nothing is
\* handed back
NoMemory == [alloc |-> [tag |-> "none"], usage |-> [ty |-> "none"]]

\* a mutant of MemoryOfError: the memory handed back has lost its bytes
MemoryOfErrorEmptied(m, usage) ==
    GraphicsBackendMemoryNew(VectorAllocation(<<>>), usage)

\* the map_err closures of memory_to_internal_memory: the memory handed
\* back with the error
MemoryOfError(m, usage) ==
    GraphicsBackendMemoryNew(VectorAllocation(m), usage)

\* the call record of an allocation made for `mem` by
\* memory_to_internal_memory (of AllocCall when mem is NoMemory): what the
\* call was given and what it hands back with result r
AllocCallFor(mem, kind, p, fresh, r) ==
    IF mem = NoMemory THEN AllocCall(kind, p, fresh)
    ELSE [op |-> "alloc", kind |-> kind, ptr |-> p, full |-> FALSE,
          prev |-> IF fresh THEN "absent" ELSE "live", probed |-> <<>>,
          mem |-> mem,
          returned |-> IF r = "ok" THEN NoMemory
                       ELSE MemoryOfError(take(mem)[1].m, take(mem)[2])]

\* the errors of an allocation that had reserved its staging block: the
\* device block, the image, the image memory or the bind failed, or the
\* image has no memory type ("err" is the failure of the staging request
\* itself)
LateAllocErrors ==
    {"err_device", "err_image", "NoMemoryHeap", "err_image_memory", "err_bind"}

\* a mutant of BufferEntry: the new entry counts as flushed
BufferEntryFlushed(staging, dev) ==
    [staging |-> staging, device |-> dev, is_flushed |-> "StagingBufferFlushed"]

BufferEntry(staging, dev) ==
    [staging |-> staging, device |-> dev, is_flushed |-> "None"]

\* a mutant of ShaderStorageEntry: the new entry has a descriptor set
ShaderStorageEntryBound(base) ==
    [base |-> base, descriptor_sets |-> Some([pool |-> 1, count |-> 1])]

\* From<VulkanAllocatorBufferCacheEntry> for the shader storage entry
ShaderStorageEntry(base) == [base |-> base, descriptor_sets |-> None]

\* a mutant of EntryKey: the entry is keyed by its device block
EntryKeyOfDevice(cacheName, staging, dev) == MappedPtr(cacheName, dev)

\* the key the new entry is inserted with: the address of the mapped memory
\* of the staging block
EntryKey(cacheName, staging, dev) == MappedPtr(cacheName, staging)

\* get_staging_buffer_for_mem_alloc_impl, called directly or for `mem` by
\* memory_to_internal_memory, for the device cache `cache` and the registry
\* map `cache_map` of the requested kind.  Each of the two block
\* acquisitions can fail; a staging block acquired before the failure is
\* dropped again.
get_staging_buffer_for_mem_alloc_impl_for(t, mem, kind, required_size, cache, cacheNext, cache_map, cache_mapNext) ==
    /\ CanLock(t)
    /\ trace' = <<>>
    /\  \/ \* the staging block could not be acquired
           /\ Returns(t, AllocCallFor(mem, kind, NoPtr, TRUE, "err"), "err")
           /\ staging_buffer_cache' = staging_buffer_cache
           /\ cacheNext = cache
           /\ cache_mapNext = cache_map
        \/ \E res_block \in Acquire(staging_buffer_cache, required_size) :
            \/ \* get_buffer_with_usage failed
               /\ Returns(t, AllocCallFor(mem, kind, NoPtr, TRUE, "err_device"), "err_device")
               /\ staging_buffer_cache' = Release(res_block.cache, res_block.block)
               /\ cacheNext = cache
               /\ cache_mapNext = cache_map
            \/ \E res_buffer \in Acquire(cache, required_size) :
                LET key == EntryKey("staging", res_block.block, res_buffer.block)
                    base == BufferEntry(res_block.block, res_buffer.block)
                IN /\ Returns(t, AllocCallFor(mem, kind, key, key \notin Registered, "ok"), "ok")
                   /\ staging_buffer_cache' = res_block.cache
                   /\ cacheNext = res_buffer.cache
                   /\ cache_mapNext =
                        Insert(cache_map, key,
                               IF kind = "shader_storage"
                               THEN ShaderStorageEntry(base) ELSE base)

get_staging_buffer_for_mem_alloc_impl(t, kind, required_size, cache, cacheNext, cache_map, cache_mapNext) ==
    get_staging_buffer_for_mem_alloc_impl_for(t, NoMemory, kind, required_size,
        cache, cacheNext, cache_map, cache_mapNext)

\* get_staging_buffer_for_mem_alloc and
\* get_staging_buffer_for_shader_storage_mem_alloc called for `mem` by
\* memory_to_internal_memory
get_staging_buffer_for_mem_alloc_for(t, mem, required_size) ==
    /\ get_staging_buffer_for_mem_alloc_impl_for(t, mem, "buffer", required_size,
           vertex_buffer_cache, vertex_buffer_cache',
           mapped_memory_cache, mapped_memory_cache')
    /\ UNCHANGED <<mapped_memory_cache_shader_storage, mapped_memory_cache_image,
                   staging_buffer_cache_image, shader_storage_cache,
                   image_buffer_caches, descr, device>>

get_staging_buffer_for_shader_storage_mem_alloc_for(t, mem, required_size) ==
    /\ get_staging_buffer_for_mem_alloc_impl_for(t, mem, "shader_storage", required_size,
           shader_storage_cache, shader_storage_cache',
           mapped_memory_cache_shader_storage, mapped_memory_cache_shader_storage')
    /\ UNCHANGED <<mapped_memory_cache, mapped_memory_cache_image,
                   staging_buffer_cache_image, vertex_buffer_cache,
                   image_buffer_caches, descr, device>>

get_staging_buffer_for_mem_alloc(t, required_size) ==
    /\ get_staging_buffer_for_mem_alloc_impl(t, "buffer", required_size,
           vertex_buffer_cache, vertex_buffer_cache',
           mapped_memory_cache, mapped_memory_cache')
    /\ UNCHANGED <<mapped_memory_cache_shader_storage, mapped_memory_cache_image,
                   staging_buffer_cache_image, shader_storage_cache,
                   image_buffer_caches, descr, device>>

get_staging_buffer_for_shader_storage_mem_alloc(t, required_size) ==
    /\ get_staging_buffer_for_mem_alloc_impl(t, "shader_storage", required_size,
           shader_storage_cache, shader_storage_cache',
           mapped_memory_cache_shader_storage, mapped_memory_cache_shader_storage')
    /\ UNCHANGED <<mapped_memory_cache, mapped_memory_cache_image,
                   staging_buffer_cache_image, vertex_buffer_cache,
                   image_buffer_caches, descr, device>>

\* the caches of image memory that registered image entries of `bits` hold
\* blocks of.  A block keeps a reference to its cache: two caches made for
\* the same bits, one after the other, are told apart by `epoch`.
EpochsInUse(bits) ==
    {mapped_memory_cache_image[p].img_mem.epoch :
        p \in {q \in DOMAIN mapped_memory_cache_image :
                  mapped_memory_cache_image[q].img_mem.bits = bits}}

\* MemoryCache::new() for a bucket of image_buffer_caches
NewImageCache(bits) ==
    [pages |-> <<>>, live |-> {},
     epoch |-> CHOOSE n \in 0..MaxLive :
                  /\ n \notin EpochsInUse(bits)
                  /\ \A m \in 0..(n - 1) : m \in EpochsInUse(bits)]

\* a mutant of ImageCacheOf: every request gets a cache of its own
ImageCacheOfFresh(bits) == NewImageCache(bits)

\* get_image_memory: the cache of the memory type bits, created on first use
ImageCacheOf(bits) ==
    IF bits \in DOMAIN image_buffer_caches THEN image_buffer_caches[bits]
    ELSE NewImageCache(bits)

\* device limit Limits::max_texture_size, in texels
MaxTextureSize == 1
\* max_texture_size of a device whose images have mip chains
MipTextureSize == 2
\* largest width, height or depth a caller of the whole allocator asks for
MaxDim == 2

\* the widths of u32 and of usize, scaled down: usize is twice as wide as
\* u32, as on a 64 bit target
U32Bits == 2
UsizeBits == 4
U32Mod == 2 ^ U32Bits
UsizeMod == 2 ^ UsizeBits
\* every value a usize holds
UsizeValues == 0..(UsizeMod - 1)

\* `x as u32` of a usize: the low bits are kept
as_u32(x) == x % U32Mod

\* a * b of two usize where overflow is not checked
wrapping_mul(a, b) == (a * b) % UsizeMod

\* width * height * depth, evaluated from the left, overflows a usize
MulOverflows(width, height, depth) ==
    \/ width * height >= UsizeMod
    \/ wrapping_mul(width, height) * depth >= UsizeMod

\* the dimensions as the caller means them are beyond the limit
ExceedsLimit(width, height, depth) ==
    \/ width > MaxTextureSize
    \/ height > MaxTextureSize
    \/ depth > MaxTextureSize
    \/ width * height * depth > MaxTextureSize * MaxTextureSize

\* one of the `as u32` comparisons of the dimension test is true, on a
\* device with the limit max_texture_size; the product is not evaluated then
DimensionTooBigOn(max_texture_size, width, height, depth) ==
    \/ as_u32(width) > max_texture_size
    \/ as_u32(height) > max_texture_size
    \/ as_u32(depth) > max_texture_size

DimensionTooBig(width, height, depth) ==
    DimensionTooBigOn(MaxTextureSize, width, height, depth)

\* the dimension test of get_staging_buffer_image_for_mem_alloc as the
\* code computes it in a build without overflow checks, on a device with
\* the limit max_texture_size
ImageDimensionsTooBigOn(max_texture_size, width, height, depth) ==
    \/ DimensionTooBigOn(max_texture_size, width, height, depth)
    \/ wrapping_mul(wrapping_mul(width, height), depth)
          > max_texture_size * max_texture_size

ImageDimensionsTooBig(width, height, depth) ==
    ImageDimensionsTooBigOn(MaxTextureSize, width, height, depth)

\* in a build with overflow checks the product of the dimension test panics
DimensionTestPanicsOn(max_texture_size, width, height, depth) ==
    /\ ~DimensionTooBigOn(max_texture_size, width, height, depth)
    /\ MulOverflows(width, height, depth)

DimensionTestPanics(width, height, depth) ==
    DimensionTestPanicsOn(MaxTextureSize, width, height, depth)

\* TexFlags: a set of flags, TEXFLAG_NOMIPMAPS the only one
TexFlagsValues == {{}, {"TEXFLAG_NOMIPMAPS"}}

\* image_mip_level_count: the levels of the mip chain of an image, down to
\* one texel: floor(log2(max(width, height))) + 1
RECURSIVE MipLevelsOf(_)
MipLevelsOf(n) == IF n <= 1 THEN 1 ELSE 1 + MipLevelsOf(n \div 2)

image_mip_level_count(width, height) == MipLevelsOf(Max(width, height))

\* a mutant of mip_map_level_count_of: the device is not asked whether it
\* blits RGBA images
mip_map_level_count_unasked(width, height, flags, optimal_rgba_image_blitting) ==
    IF flags \cap {"TEXFLAG_NOMIPMAPS"} = {}
    THEN image_mip_level_count(as_u32(width), as_u32(height))
    ELSE 1

\* mip_map_level_count of get_staging_buffer_image_for_mem_alloc: 1, and
\* when the flags require mip maps the count of the image's extent, set
\* back to 1 when the device does not blit RGBA images
mip_map_level_count_of(width, height, flags, optimal_rgba_image_blitting) ==
    LET requires_mip_maps == flags \cap {"TEXFLAG_NOMIPMAPS"} = {}
    IN IF requires_mip_maps
       THEN IF ~optimal_rgba_image_blitting THEN 1
            ELSE image_mip_level_count(as_u32(width), as_u32(height))
       ELSE 1

\* the texels the staging block is requested for; a request takes one
\* allocation unit at least
ImageSize(width, height, depth) ==
    Max(1, wrapping_mul(wrapping_mul(width, height), depth))

\* mem_requirements.memory_type_bits of a new image as the device reports
\* it: the bits of a memory type, or 0 when no memory type fits
MemoryTypeBitsReported == MemTypeBits \cup {0}

\* a mutant of HasNoMemoryType: the bits are handed on untested
HasNoMemoryTypeUntested(memory_type_bits) == FALSE

\* if mem_requirements.memory_type_bits == 0
HasNoMemoryType(memory_type_bits) == memory_type_bits = 0

\* the entry of an image: `img` is the device image with the mip levels
\* it was created with, `data` the mip_map_count kept for the flush
ImageEntry(staging, bits, img_mem, epoch, mip_map_level_count) ==
    [staging |-> staging,
     img |-> [mip_levels |-> mip_map_level_count],
     img_mem |-> [bits |-> bits, block |-> img_mem, epoch |-> epoch],
     data |-> [mip_map_count |-> mip_map_level_count],
     is_flushed |-> "None"]

\* get_staging_buffer_image_for_mem_alloc with create_image_ex and
\* get_image_memory, called directly or for `mem` by
\* memory_to_internal_memory, for an image with `flags` on a device with
\* `limits`:
\* its max_texture_size, whether it blits RGBA images, and the memory type
\* bits it may report for the image.  One allocation unit of the staging
\* cache holds one RGBA texel.
get_staging_buffer_image_for_mem_alloc_for(t, mem, width, height, depth, flags, limits) ==
    /\ CanLock(t)
    /\ trace' = <<>>
    /\ UNCHANGED <<mapped_memory_cache, mapped_memory_cache_shader_storage,
                   staging_buffer_cache, vertex_buffer_cache, shader_storage_cache,
                   descr, device>>
    /\  \/ \* overflow checks are on and the product overflows
           /\ DimensionTestPanicsOn(limits.max_texture_size, width, height, depth)
           /\ Panics(t, AllocCall("image", NoPtr, TRUE))
           /\ UNCHANGED <<mapped_memory_cache_image, staging_buffer_cache_image,
                          image_buffer_caches>>
        \/ IF ImageDimensionsTooBigOn(limits.max_texture_size, width, height, depth)
           THEN /\ Returns(t, AllocCallFor(mem, "image", NoPtr, TRUE, "ImageDimensionsTooBig"), "ImageDimensionsTooBig")
                /\ UNCHANGED <<mapped_memory_cache_image, staging_buffer_cache_image,
                               image_buffer_caches>>
           ELSE
             \/ \* the staging block could not be acquired
                /\ Returns(t, AllocCallFor(mem, "image", NoPtr, TRUE, "err"), "err")
                /\ UNCHANGED <<mapped_memory_cache_image, staging_buffer_cache_image,
                               image_buffer_caches>>
             \/ \E res_block \in Acquire(staging_buffer_cache_image, ImageSize(width, height, depth)) :
                 \/ \* Image::new failed
                    /\ Returns(t, AllocCallFor(mem, "image", NoPtr, TRUE, "err_image"), "err_image")
                    /\ staging_buffer_cache_image' = Release(res_block.cache, res_block.block)
                    /\ UNCHANGED <<mapped_memory_cache_image, image_buffer_caches>>
                 \/ \E bits \in limits.memory_type_bits :
                     IF HasNoMemoryType(bits)
                     THEN \* create_image_ex returns before get_image_memory
                          /\ Returns(t, AllocCallFor(mem, "image", NoPtr, TRUE, "NoMemoryHeap"), "NoMemoryHeap")
                          /\ staging_buffer_cache_image' =
                                Release(res_block.cache, res_block.block)
                          /\ UNCHANGED <<mapped_memory_cache_image, image_buffer_caches>>
                     ELSE
                     \/ \* get_image_memory failed after it created the cache
                        /\ Returns(t, AllocCallFor(mem, "image", NoPtr, TRUE, "err_image_memory"), "err_image_memory")
                        /\ staging_buffer_cache_image' = Release(res_block.cache, res_block.block)
                        /\ image_buffer_caches' = Insert(image_buffer_caches, bits, ImageCacheOf(bits))
                        /\ UNCHANGED mapped_memory_cache_image
                     \/ \E image_memory \in Acquire(ImageCacheOf(bits), ImageSize(width, height, depth)) :
                         \/ \* image.bind failed
                            /\ Returns(t, AllocCallFor(mem, "image", NoPtr, TRUE, "err_bind"), "err_bind")
                            /\ staging_buffer_cache_image' = Release(res_block.cache, res_block.block)
                            /\ image_buffer_caches' =
                                 Insert(image_buffer_caches, bits,
                                        Release(image_memory.cache, image_memory.block))
                            /\ UNCHANGED mapped_memory_cache_image
                         \/ LET key == MappedPtr("staging_image", res_block.block)
                            IN /\ Returns(t, AllocCallFor(mem, "image", key, key \notin Registered, "ok"), "ok")
                               /\ staging_buffer_cache_image' = res_block.cache
                               /\ image_buffer_caches' =
                                    Insert(image_buffer_caches, bits, image_memory.cache)
                               /\ mapped_memory_cache_image' =
                                    Insert(mapped_memory_cache_image, key,
                                           ImageEntry(res_block.block, bits, image_memory.block,
                                                      image_memory.cache.epoch,
                                                      mip_map_level_count_of(
                                                          width, height, flags,
                                                          limits.optimal_rgba_image_blitting)))

get_staging_buffer_image_for_mem_alloc_with(t, width, height, depth, flags, limits) ==
    get_staging_buffer_image_for_mem_alloc_for(t, NoMemory, width, height, depth,
                                               flags, limits)

\* the same, for every flags of the image, on a device of the limit
\* MaxTextureSize that may or may not blit RGBA images and reports one of
\* `reported` as the memory type bits
get_staging_buffer_image_for_mem_alloc_on(t, width, height, depth, reported) ==
    \E flags \in TexFlagsValues : \E optimal_rgba_image_blitting \in BOOLEAN :
        get_staging_buffer_image_for_mem_alloc_with(t, width, height, depth, flags,
            [max_texture_size |-> MaxTextureSize,
             optimal_rgba_image_blitting |-> optimal_rgba_image_blitting,
             memory_type_bits |-> reported])

get_staging_buffer_image_for_mem_alloc(t, width, height, depth) ==
    get_staging_buffer_image_for_mem_alloc_on(t, width, height, depth,
                                              MemoryTypeBitsReported)

\* ------------------------------------------------------------------------
\* memory_to_internal_memory
\* ------------------------------------------------------------------------
\* GraphicsMemoryAllocationType
VertexBufferUsage == [ty |-> "VertexBuffer"]
ShaderStorageUsage == [ty |-> "ShaderStorage"]
TextureRgbaU8Usage(width, height, flags) ==
    [ty |-> "TextureRgbaU8", width |-> width, height |-> height, flags |-> flags]
TextureRgbaU82dArrayUsage(width, height, depth, flags) ==
    [ty |-> "TextureRgbaU82dArray", width |-> width, height |-> height,
     depth |-> depth, flags |-> flags]

\* a mutant of StaticExists: the pointer is looked up in every map
StaticExistsAnywhere(usage, p) == p \in Registered

\* `exists` of the Static arm: the map that is asked depends on the usage
StaticExists(usage, p) ==
    IF usage.ty \in {"TextureRgbaU8", "TextureRgbaU82dArray"}
    THEN mem_block_image_exists(p)
    ELSE IF usage.ty = "VertexBuffer" THEN mem_block_exists(p)
    ELSE mem_block_shader_storage_exists(p)

\* the call record of memory_to_internal_memory on allocator memory
StaticCall(mem) ==
    [op |-> "memory_to_internal_memory", kind |-> "none", ptr |-> take(mem)[1].ptr,
     full |-> FALSE, prev |-> "none", probed |-> <<>>, mem |-> mem]

\* memory_to_internal_memory: allocator memory is looked up, and a miss is
\* a panic; caller memory is handed to the allocation function of its
\* usage, on a device of the limit MaxTextureSize that may or may not blit
\* RGBA images
memory_to_internal_memory(t, mem) ==
    LET alloc == take(mem)[1]
        usage == take(mem)[2]
    IN IF alloc.tag = "Static"
       THEN /\ CanLock(t)
            /\ trace' = <<>>
            /\ UNCHANGED <<registry, caches, descr, device>>
            /\ IF StaticExists(usage, alloc.ptr)
               THEN Returns(t, StaticCall(mem), "ok")
               ELSE Panics(t, StaticCall(mem))
       ELSE IF usage.ty = "VertexBuffer"
       THEN get_staging_buffer_for_mem_alloc_for(t, mem, Len(alloc.m))
       ELSE IF usage.ty = "ShaderStorage"
       THEN get_staging_buffer_for_shader_storage_mem_alloc_for(t, mem, Len(alloc.m))
       ELSE \E optimal_rgba_image_blitting \in BOOLEAN :
               get_staging_buffer_image_for_mem_alloc_for(t, mem,
                   usage.width, usage.height,
                   IF usage.ty = "TextureRgbaU8" THEN 1 ELSE usage.depth,
                   usage.flags,
                   [max_texture_size |-> MaxTextureSize,
                    optimal_rgba_image_blitting |-> optimal_rgba_image_blitting,
                    memory_type_bits |-> MemoryTypeBitsReported])

\* ------------------------------------------------------------------------
\* Free
\* ------------------------------------------------------------------------
\* the map free_mem_raw removes the pointer from: the buffer map is probed
\* first, then the image map, then the shader storage map
\* a mutant of FreeKind: the image map is not probed
FreeKindNoImage(p) ==
    IF mem_block_exists(p) THEN "buffer"
    ELSE IF mem_block_shader_storage_exists(p) THEN "shader_storage"
    ELSE "none"

FreeKind(p) ==
    IF mem_block_exists(p) THEN "buffer"
    ELSE IF mem_block_image_exists(p) THEN "image"
    ELSE IF mem_block_shader_storage_exists(p) THEN "shader_storage"
    ELSE "none"

\* a mutant of FreeProbeOrder: the image map is probed last
FreeProbeOrderImageLast == <<"buffer", "shader_storage", "image">>

\* the maps free_mem_raw calls `remove` on, in the order of the calls
FreeProbeOrder == <<"buffer", "image", "shader_storage">>

\* the removes that are made for pointer p: each one is made only if the one
\* before it returned None
ProbesUntilFound(order, p) ==
    LET hits == {i \in 1..Len(order) : p \in DOMAIN MapOf(order[i])}
    IN IF hits = {} THEN order
       ELSE SubSeq(order, 1, CHOOSE i \in hits : \A j \in hits : i <= j)

\* the call record of a free: `probed` are the maps it called `remove` on
FreeCall(kind, p) ==
    [op |-> "free", kind |-> kind, ptr |-> p, full |-> FALSE,
     prev |-> IF kind = "none" THEN "absent" ELSE FlushStateOf(kind, p),
     probed |-> ProbesUntilFound(FreeProbeOrder, p)]

\* the descriptor pools after the descriptor sets of an entry are dropped
DropDescriptor(pools, descriptor_sets) ==
    IF descriptor_sets = None THEN pools ELSE DropSets(pools, descriptor_sets[1])

\* a mutant of FreeUnknown: the unknown pointer is ignored and free returns
FreeUnknownReturns(t, c) == Returns(t, c, "ok")

\* free_mem_raw found the pointer in none of the maps: panic!
FreeUnknown(t, c) == Panics(t, c)

\* the image memory block of a dropped image entry returns to the cache it
\* was carved from; that cache is in image_buffer_caches unless
\* destroy_caches has removed it since
ReleaseImageMemory(buckets, img_mem) ==
    IF /\ img_mem.bits \in DOMAIN buckets
       /\ buckets[img_mem.bits].epoch = img_mem.epoch
    THEN [buckets EXCEPT ![img_mem.bits] = Release(@, img_mem.block)]
    ELSE buckets

\* free_mem_raw: the entry removed from the first map that has the pointer
\* is dropped, which releases its blocks (and the descriptor sets of a shader
\* storage entry); a pointer found in no map is a panic
free_mem_raw(t, mem) ==
    /\ CanLock(t)
    /\ trace' = <<>>
    /\ UNCHANGED <<device, held_sets, descr_call>>
    /\ LET kind == FreeKind(mem) IN
        \/ /\ kind = "buffer"
           /\ LET e == mapped_memory_cache[mem] IN
               /\ mapped_memory_cache' = Remove(mapped_memory_cache, mem)
               /\ staging_buffer_cache' = Release(staging_buffer_cache, e.staging)
               /\ vertex_buffer_cache' = Release(vertex_buffer_cache, e.device)
           /\ Returns(t, FreeCall(kind, mem), "ok")
           /\ UNCHANGED <<mapped_memory_cache_shader_storage, mapped_memory_cache_image,
                          staging_buffer_cache_image, shader_storage_cache,
                          image_buffer_caches, shader_storage_descr_pools>>
        \/ /\ kind = "image"
           /\ LET e == mapped_memory_cache_image[mem] IN
               /\ mapped_memory_cache_image' = Remove(mapped_memory_cache_image, mem)
               /\ staging_buffer_cache_image' = Release(staging_buffer_cache_image, e.staging)
               /\ image_buffer_caches' = ReleaseImageMemory(image_buffer_caches, e.img_mem)
           /\ Returns(t, FreeCall(kind, mem), "ok")
           /\ UNCHANGED <<mapped_memory_cache, mapped_memory_cache_shader_storage,
                          staging_buffer_cache, vertex_buffer_cache, shader_storage_cache,
                          shader_storage_descr_pools>>
        \/ /\ kind = "shader_storage"
           /\ LET e == mapped_memory_cache_shader_storage[mem] IN
               /\ mapped_memory_cache_shader_storage' =
                    Remove(mapped_memory_cache_shader_storage, mem)
               /\ staging_buffer_cache' = Release(staging_buffer_cache, e.base.staging)
               /\ shader_storage_cache' = Release(shader_storage_cache, e.base.device)
               /\ shader_storage_descr_pools' =
                    DropDescriptor(shader_storage_descr_pools, e.descriptor_sets)
           /\ Returns(t, FreeCall(kind, mem), "ok")
           /\ UNCHANGED <<mapped_memory_cache, mapped_memory_cache_image,
                          staging_buffer_cache_image, vertex_buffer_cache,
                          image_buffer_caches>>
        \/ /\ kind = "none"
           /\ FreeUnknown(t, FreeCall(kind, mem))
           /\ UNCHANGED <<registry, caches, shader_storage_descr_pools>>

\* ------------------------------------------------------------------------
\* Flush
\* ------------------------------------------------------------------------
\* the map try_flush_mem flushes the pointer in: the image map is probed
\* first, then the buffer map, then the shader storage map
FlushKind(p) ==
    IF mem_block_image_exists(p) THEN "image"
    ELSE IF mem_block_exists(p) THEN "buffer"
    ELSE IF mem_block_shader_storage_exists(p) THEN "shader_storage"
    ELSE "none"

\* a mutant of FlushProbeOrder: the maps are probed in the order of free
FlushProbeOrderOfFree == <<"buffer", "image", "shader_storage">>

\* the maps try_flush_mem calls mem_block_*_exists on, in the order of the
\* calls
FlushProbeOrder == <<"image", "buffer", "shader_storage">>

\* the call record of a flush: `probed` are the maps try_flush_mem probed to
\* pick the flush function (none when the flush function is called directly)
FlushCall(kind, p, full_flush, probed) ==
    [op |-> "flush", kind |-> kind, ptr |-> p, full |-> full_flush,
     prev |-> IF kind = "none" \/ p \notin DOMAIN MapOf(kind)
              THEN "absent" ELSE FlushStateOf(kind, p),
     probed |-> probed]

\* a mutant of EnterFlush: a pointer that is not registered is a panic
EnterFlushPanics(t, kind, mem, full_flush, probed) ==
    /\ trace' = <<>>
    /\ UNCHANGED <<registry, caches, descr, device>>
    /\ IF kind = "none" \/ mem \notin DOMAIN MapOf(kind)
       THEN Panics(t, FlushCall(kind, mem, full_flush, probed))
       ELSE /\ lock' = t
            /\ pc' = [pc EXCEPT ![t] = "flush_range"]
            /\ call' = [call EXCEPT ![t] = FlushCall(kind, mem, full_flush, probed)]
            /\ ret' = ret

\* a mutant of FirstFlushStep: a full flush goes to the command buffer at
\* once
FirstFlushStepOfFull(full_flush) == IF full_flush THEN "begin" ELSE "flush_range"

\* the first device call of flush_*_memory on an entry it found:
\* flush_mapped_memory_ranges, before the branch on full_flush
FirstFlushStep(full_flush) == "flush_range"

\* the call enters flush_*_memory of `kind`: an error when the map of that
\* kind does not hold the pointer, else on to the flush of the staging range
EnterFlush(t, kind, mem, full_flush, probed) ==
    /\ trace' = <<>>
    /\ UNCHANGED <<registry, caches, descr, device>>
    /\ IF mem = NullPtr
       THEN Panics(t, FlushCall(kind, mem, full_flush, probed))
       ELSE IF kind = "none" \/ mem \notin DOMAIN MapOf(kind)
       THEN Returns(t, FlushCall(kind, mem, full_flush, probed), "err")
       ELSE /\ lock' = t
            /\ pc' = [pc EXCEPT ![t] = FirstFlushStep(full_flush)]
            /\ call' = [call EXCEPT ![t] = FlushCall(kind, mem, full_flush, probed)]
            /\ ret' = ret

\* try_flush_mem on allocator memory (GraphicsBackendMemoryAllocation::Static)
try_flush_mem(t, mem, do_expensive_flushing) ==
    /\ CanLock(t)
    /\ EnterFlush(t, FlushKind(mem), mem, do_expensive_flushing,
                  IF mem = NullPtr THEN <<>> ELSE ProbesUntilFound(FlushProbeOrder, mem))

\* try_flush_mem on caller memory (GraphicsBackendMemoryAllocation::Vector)
try_flush_mem_vector(t, do_expensive_flushing) ==
    /\ CanLock(t)
    /\ trace' = <<>>
    /\ UNCHANGED <<registry, caches, descr, device>>
    /\ Returns(t, [op |-> "flush_vector", kind |-> "none", ptr |-> NoPtr,
                   full |-> do_expensive_flushing, prev |-> "absent",
                   probed |-> <<>>], "err")

\* flush_img_memory, flush_buffer_memory, flush_shader_storage_memory called
\* directly
flush_memory(t, kind, mem, full_flush) ==
    /\ CanLock(t)
    /\ EnterFlush(t, kind, mem, full_flush, <<>>)

\* a mutant of PartialFlushState: a fully created entry stays fully created
PartialFlushStateMonotonic(prev) ==
    IF prev = "FullyCreated" THEN prev ELSE "StagingBufferFlushed"

\* the flush state after a flush without the device copy
PartialFlushState(prev) == "StagingBufferFlushed"

\* a mutant of SetFlushState: the state is stored in every entry of the map
SetFlushStateOfAll(kind, p, state) ==
    /\ mapped_memory_cache' =
         IF kind = "buffer"
         THEN [q \in DOMAIN mapped_memory_cache |->
                  [mapped_memory_cache[q] EXCEPT !.is_flushed = state]]
         ELSE mapped_memory_cache
    /\ mapped_memory_cache_image' =
         IF kind = "image"
         THEN [q \in DOMAIN mapped_memory_cache_image |->
                  [mapped_memory_cache_image[q] EXCEPT !.is_flushed = state]]
         ELSE mapped_memory_cache_image

\* `is_flushed = state` on the buffer or image entry the flush looked up
SetFlushState(kind, p, state) ==
    /\ mapped_memory_cache' =
         IF kind = "buffer"
         THEN [mapped_memory_cache EXCEPT ![p].is_flushed = state]
         ELSE mapped_memory_cache
    /\ mapped_memory_cache_image' =
         IF kind = "image"
         THEN [mapped_memory_cache_image EXCEPT ![p].is_flushed = state]
         ELSE mapped_memory_cache_image

InStep(t, step) == pc[t] = step /\ lock = t

\* a mutant of TakesFullBranch: the device copy is made in every flush
TakesFullBranchAlways(c) == TRUE

\* `if full_flush` of flush_img_memory, flush_buffer_memory and
\* flush_shader_storage_memory
TakesFullBranch(c) == c.full

\* flush_mapped_memory_ranges(..).unwrap() of the staging block, then the
\* branch on full_flush
FlushMappedMemoryRanges(t) ==
    /\ InStep(t, "flush_range")
    /\ UNCHANGED <<caches, descr, device>>
    /\ \/ \* the range flush failed: unwrap panics
          /\ Panics(t, call[t])
          /\ trace' = <<>>
          /\ UNCHANGED registry
       \/ /\ TakesFullBranch(call[t])
          /\ trace' = Append(trace, "flush_range")
          /\ Goes(t, "begin")
          /\ UNCHANGED registry
       \/ /\ ~TakesFullBranch(call[t])
          /\ trace' = Append(trace, "flush_range")
          /\ pc' = [pc EXCEPT ![t] = "ret"]
          /\ ret' = [ret EXCEPT ![t] = "none"]
          /\ UNCHANGED <<lock, call>>
          /\ SetFlushState(call[t].kind, call[t].ptr, PartialFlushState(call[t].prev))
          /\ mapped_memory_cache_shader_storage' =
               IF call[t].kind = "shader_storage"
               THEN [mapped_memory_cache_shader_storage EXCEPT
                        ![call[t].ptr].base.is_flushed = PartialFlushState(call[t].prev)]
               ELSE mapped_memory_cache_shader_storage

\* a device step of the full flush returned an error: `?` returns it
StepFails(t) ==
    /\ Fails(t)
    /\ UNCHANGED <<registry, caches, descr>>

\* a mutant of start_command_buffer: the entry is marked fully created as
\* soon as the command buffer has begun
start_command_buffer_marks(t) ==
    /\ InStep(t, "begin")
    /\ UNCHANGED fence
    /\ \/ /\ command_buffers' = "recording"
          /\ trace' = Append(trace, "begin")
          /\ Goes(t, "copy")
          /\ UNCHANGED <<caches, descr>>
          /\ SetFlushState(call[t].kind, call[t].ptr, "FullyCreated")
          /\ mapped_memory_cache_shader_storage' =
               IF call[t].kind = "shader_storage"
               THEN [mapped_memory_cache_shader_storage EXCEPT
                        ![call[t].ptr].base.is_flushed = "FullyCreated"]
               ELSE mapped_memory_cache_shader_storage
       \/ /\ StepFails(t)
          /\ UNCHANGED <<command_buffers, trace>>

\* start_command_buffer: begin_command_buffer with ONE_TIME_SUBMIT
start_command_buffer(t) ==
    /\ InStep(t, "begin")
    /\ UNCHANGED fence
    /\ \/ /\ command_buffers' = "recording"
          /\ trace' = Append(trace, "begin")
          /\ Goes(t, "copy")
          /\ UNCHANGED <<registry, caches, descr>>
       \/ /\ StepFails(t)
          /\ UNCHANGED <<command_buffers, trace>>

\* complete_buffer_object, complete_texture, complete_shader_storage_object:
\* record the copy from the staging block into the device block or image
RecordCopy(t) ==
    /\ InStep(t, "copy")
    /\ UNCHANGED device
    /\ \/ /\ trace' = Append(trace, "copy")
          /\ Goes(t, "end")
          /\ UNCHANGED <<registry, caches, descr>>
       \/ /\ StepFails(t)
          /\ UNCHANGED trace

\* execute_command_buffer, first part: end_command_buffer
EndCommandBuffer(t) ==
    /\ InStep(t, "end")
    /\ UNCHANGED fence
    /\ \/ /\ command_buffers' = "executable"
          /\ trace' = Append(trace, "end")
          /\ Goes(t, "reset_fences")
          /\ UNCHANGED <<registry, caches, descr>>
       \/ /\ StepFails(t)
          /\ command_buffers' = "invalid"
          /\ UNCHANGED trace

\* a mutant of ResetFences: the fence is submitted as it is
ResetFencesSkipped(t) ==
    /\ InStep(t, "reset_fences")
    /\ UNCHANGED <<command_buffers, fence, trace>>
    /\ Goes(t, "submit")
    /\ UNCHANGED <<registry, caches, descr>>

\* execute_command_buffer, second part: reset_fences
ResetFences(t) ==
    /\ InStep(t, "reset_fences")
    /\ UNCHANGED command_buffers
    /\ \/ /\ fence' = "unsignaled"
          /\ trace' = Append(trace, "reset_fences")
          /\ Goes(t, "submit")
          /\ UNCHANGED <<registry, caches, descr>>
       \/ /\ StepFails(t)
          /\ UNCHANGED <<fence, trace>>

\* a mutant of FullFlushState: the state of the partial flush is stored
FullFlushStateStaging(prev) == "StagingBufferFlushed"

\* the flush state a successful full flush leaves
FullFlushState(prev) == "FullyCreated"

\* execute_command_buffer, third part: queue_submit with the fence; for
\* buffer and image entries the flush state is set and the call returns
QueueSubmit(t) ==
    /\ InStep(t, "submit")
    /\ \/ /\ command_buffers' = "pending"
          /\ fence' = "pending"
          /\ trace' = Append(trace, "submit")
          /\ UNCHANGED <<caches, descr, mapped_memory_cache_shader_storage>>
          /\ IF call[t].kind = "shader_storage"
             THEN /\ Goes(t, "descriptor")
                  /\ UNCHANGED <<mapped_memory_cache, mapped_memory_cache_image>>
             ELSE /\ pc' = [pc EXCEPT ![t] = "ret"]
                  /\ ret' = [ret EXCEPT ![t] = "some"]
                  /\ UNCHANGED <<lock, call>>
                  /\ SetFlushState(call[t].kind, call[t].ptr, FullFlushState(call[t].prev))
       \/ /\ StepFails(t)
          /\ UNCHANGED <<device, trace>>

\* a mutant of BindsDescriptor: an entry that has a descriptor set keeps it
BindsDescriptorOnce(entry) == entry.descriptor_sets = None

\* whether the full flush of a shader storage entry allocates and binds a
\* descriptor set
BindsDescriptor(entry) == TRUE

\* flush_shader_storage_memory after the submit: one descriptor set is
\* allocated and stored in the entry (the set stored before is dropped),
\* then the flush state is set
CreateDescriptor(t) ==
    /\ InStep(t, "descriptor")
    /\ UNCHANGED <<device, caches, held_sets, descr_call, mapped_memory_cache,
                   mapped_memory_cache_image>>
    /\ LET buffer == mapped_memory_cache_shader_storage[call[t].ptr] IN
        IF BindsDescriptor(buffer)
        THEN \E fail \in 0..2 :
          LET descriptor == create_shader_storage_descriptor_sets(
                                shader_storage_descr_pools, 1, fail)
          IN IF descriptor.ok
             THEN /\ trace' = Append(trace, "descriptor")
                  /\ shader_storage_descr_pools' =
                       DropDescriptor(descriptor.pools, buffer.descriptor_sets)
                  /\ mapped_memory_cache_shader_storage' =
                       [mapped_memory_cache_shader_storage EXCEPT
                          ![call[t].ptr].descriptor_sets = Some(descriptor.res[1]),
                          ![call[t].ptr].base.is_flushed = FullFlushState(call[t].prev)]
                  /\ pc' = [pc EXCEPT ![t] = "ret"]
                  /\ ret' = [ret EXCEPT ![t] = "some"]
                  /\ UNCHANGED <<lock, call>>
             ELSE /\ Fails(t)
                  /\ shader_storage_descr_pools' = descriptor.pools
                  /\ UNCHANGED <<trace, mapped_memory_cache_shader_storage>>
        ELSE /\ UNCHANGED <<trace, shader_storage_descr_pools>>
             /\ mapped_memory_cache_shader_storage' =
                  [mapped_memory_cache_shader_storage EXCEPT
                     ![call[t].ptr].base.is_flushed = FullFlushState(call[t].prev)]
             /\ pc' = [pc EXCEPT ![t] = "ret"]
             /\ ret' = [ret EXCEPT ![t] = "some"]
             /\ UNCHANGED <<lock, call>>

\* the device finishes the submitted command buffer and signals the fence
DeviceComplete ==
    /\ fence = "pending"
    /\ fence' = "signaled"
    /\ command_buffers' = IF command_buffers = "pending" THEN "invalid"
                          ELSE command_buffers
    /\ UNCHANGED <<registry, caches, descr, threads, trace>>

\* a mutant of Clear: the map keeps its buckets
ClearKeeps(buckets) == buckets

\* BTreeMap::clear
Clear(buckets) == EmptyMap

\* destroy_caches: image_buffer_caches.clear()
destroy_caches(t) ==
    /\ CanLock(t)
    /\ trace' = <<>>
    /\ image_buffer_caches' = Clear(image_buffer_caches)
    /\ Returns(t, [op |-> "destroy_caches", kind |-> "none", ptr |-> NoPtr,
                   full |-> FALSE, prev |-> "none", probed |-> <<>>], "ok")
    /\ UNCHANGED <<registry, staging_buffer_cache, staging_buffer_cache_image,
                   vertex_buffer_cache, shader_storage_cache, descr, device>>

\* ------------------------------------------------------------------------
\* Specifications
\* ------------------------------------------------------------------------
\* allocate and free
AllocFree(t) ==
    \/ /\ LiveCount < MaxLive
       /\ \E required_size \in 1..MaxSize :
             get_staging_buffer_for_mem_alloc(t, required_size)
    \/ /\ LiveCount < MaxLive
       /\ \E required_size \in 1..MaxSize :
             get_staging_buffer_for_shader_storage_mem_alloc(t, required_size)
    \/ /\ LiveCount < MaxLive
       /\ \E width \in 1..MaxDim, height \in 1..MaxDim, depth \in 1..MaxDim :
             get_staging_buffer_image_for_mem_alloc(t, width, height, depth)
    \/ \E mem \in RawPtrs : free_mem_raw(t, mem)
    \/ Return(t)
    \/ Unwind(t)

\* the calls that enter a flush
FlushCalls(t) ==
    \/ \E mem \in CallerPtrs : \E full \in BOOLEAN : try_flush_mem(t, mem, full)
    \/ \E full \in BOOLEAN : try_flush_mem_vector(t, full)
    \/ \E kind \in Kinds : \E mem \in RawPtrs : \E full \in BOOLEAN :
          flush_memory(t, kind, mem, full)

\* the steps of a call that is in a flush
FlushSteps(t) ==
    \/ FlushMappedMemoryRanges(t)
    \/ start_command_buffer(t)
    \/ RecordCopy(t)
    \/ EndCommandBuffer(t)
    \/ ResetFences(t)
    \/ QueueSubmit(t)
    \/ CreateDescriptor(t)

\* every cache holds one page already (the state after an entry of each
\* kind was allocated and freed again)
WarmCache == [pages |-> <<PageSize>>, live |-> {}]

WarmImageCache == [pages |-> <<PageSize>>, live |-> {}, epoch |-> 0]

Warm ==
    /\ staging_buffer_cache = WarmCache
    /\ staging_buffer_cache_image = WarmCache
    /\ vertex_buffer_cache = WarmCache
    /\ shader_storage_cache = WarmCache
    /\ image_buffer_caches = [bits \in MemTypeBits |-> WarmImageCache]

InitWarm ==
    /\ Warm
    /\ mapped_memory_cache = EmptyMap
    /\ mapped_memory_cache_shader_storage = EmptyMap
    /\ mapped_memory_cache_image = EmptyMap
    /\ shader_storage_descr_pools = NewDescriptorPools
    /\ held_sets = <<>>
    /\ descr_call = NoDescrCall
    /\ command_buffers = "initial"
    /\ fence = "unsignaled"
    /\ lock = NoThread
    /\ pc = [t \in Threads |-> "idle"]
    /\ call = [t \in Threads |-> NoCall]
    /\ ret = [t \in Threads |-> "none"]
    /\ trace = <<>>

\* get_descriptor_pool_for_alloc called on the pools by another user of them
\* (the function takes the pools' own lock, not the allocator's)
AllocateSets(set_count, fail) ==
    /\ Len(held_sets) <= MaxHeldGroups
    /\ LET r == get_descriptor_pool_for_alloc(shader_storage_descr_pools, set_count, fail)
       IN /\ shader_storage_descr_pools' = r.pools
          /\ held_sets' = held_sets \o r.res
          /\ descr_call' = [set_count |-> set_count, ok |-> r.ok, res |-> r.res,
                            pools_before |-> Len(shader_storage_descr_pools),
                            fresh |-> shader_storage_descr_pools = NewDescriptorPools]
    /\ UNCHANGED <<registry, caches, device, threads, trace>>

\* create_uniform_descriptor_sets or create_shader_storage_descriptor_sets
\* called by a user of the pools: the two differ in the kind of buffer
\* the sets are bound to only
CreateDescriptorSets(set_count, fail, memory_offset, single_buffer_instance_size) ==
    /\ Len(held_sets) <= MaxHeldGroups
    /\ LET r == create_descriptor_sets(shader_storage_descr_pools, set_count, fail,
                                       memory_offset, single_buffer_instance_size)
       IN /\ shader_storage_descr_pools' = r.pools
          /\ held_sets' = held_sets \o r.res
          /\ descr_call' = [set_count |-> set_count, ok |-> r.ok, res |-> r.res,
                            pools_before |-> Len(shader_storage_descr_pools),
                            fresh |-> shader_storage_descr_pools = NewDescriptorPools,
                            memory_offset |-> memory_offset,
                            single_buffer_instance_size |-> single_buffer_instance_size,
                            bound |-> r.bound]
    /\ UNCHANGED <<registry, caches, device, threads, trace>>

\* a caller drops one of the descriptor set groups it holds
DropHeldSets(i) ==
    /\ i \in 1..Len(held_sets)
    /\ shader_storage_descr_pools' = DropSets(shader_storage_descr_pools, held_sets[i])
    /\ held_sets' = SubSeq(held_sets, 1, i - 1) \o SubSeq(held_sets, i + 1, Len(held_sets))
    /\ UNCHANGED <<descr_call, registry, caches, device, threads, trace>>

\* the descriptor pools alone
NextPools ==
    \/ \E set_count \in 0..MaxSetCount : \E fail \in 0..MaxSetCount :
          AllocateSets(set_count, fail)
    \/ \E i \in 1..(MaxHeldGroups + MaxSetCount) : DropHeldSets(i)

SpecPools == Init /\ [][NextPools]_vars

\* the descriptor pools, asked for bound descriptor sets
NextBind ==
    \/ \E set_count \in 0..MaxSetCount : \E fail \in 0..MaxSetCount :
          \E memory_offset \in 0..MaxMemoryOffset :
             \E single_buffer_instance_size \in 1..MaxInstanceSize :
                CreateDescriptorSets(set_count, fail, memory_offset,
                                     single_buffer_instance_size)
    \/ \E i \in 1..(MaxHeldGroups + MaxSetCount) : DropHeldSets(i)

SpecBind == Init /\ [][NextBind]_vars

\* the whole allocator, used by one thread
Next ==
    \/ AllocFree("t1")
    \/ FlushCalls("t1")
    \/ FlushSteps("t1")
    \/ DeviceComplete

Spec == Init /\ [][Next]_vars

\* allocation and free only, from the state after construction
NextAlloc == AllocFree("t1")

SpecAlloc == Init /\ [][NextAlloc]_vars

\* buffer allocations up to an oversized one, and free: the memory caches
NextPages ==
    \/ /\ LiveCount < MaxPagesLive
       /\ \E required_size \in 1..MaxPagesSize :
             get_staging_buffer_for_mem_alloc("t1", required_size)
    \/ \E mem \in Registered : free_mem_raw("t1", mem)
    \/ Return("t1")

SpecPages == Init /\ [][NextPages]_vars

\* allocation, flush of the staging range, free and destroy_caches
NextPurge ==
    \/ AllocFree("t1")
    \/ \E mem \in Registered : try_flush_mem("t1", mem, FALSE)
    \/ FlushMappedMemoryRanges("t1")
    \/ destroy_caches("t1")

SpecPurge == Init /\ [][NextPurge]_vars

\* the whole allocator used by one thread, the caches warmed up
SpecFlush == InitWarm /\ [][Next]_vars

\* the whole allocator shared by the worker threads, the caches warmed up
NextMT ==
    \/ \E t \in Threads : AllocFree(t)
    \/ \E t \in Threads : FlushCalls(t)
    \/ \E t \in Threads : FlushSteps(t)
    \/ DeviceComplete

SpecMT == InitWarm /\ [][NextMT]_vars

\* ------------------------------------------------------------------------
\* Properties
\* ------------------------------------------------------------------------
Rank(state) ==
    IF state = "None" THEN 0 ELSE IF state = "StagingBufferFlushed" THEN 1 ELSE 2

InTrace(step) == \E i \in 1..Len(trace) : trace[i] = step
CountInTrace(step) == Cardinality({i \in 1..Len(trace) : trace[i] = step})

\* thread t is at the return of a flush call on a pointer that was registered
FlushReturned(t) ==
    /\ pc[t] = "ret"
    /\ call[t].op = "flush"
    /\ call[t].prev # "absent"

\* the step is the end of a partial flush of pointer p in the map of kind k
PartialFlushOf(k, p) ==
    \E t \in Threads :
        /\ pc[t] = "flush_range" /\ pc'[t] = "ret"
        /\ call[t].kind = k /\ call[t].ptr = p /\ ~call[t].full

\* the step is the successful end of a full flush of p in the map of kind k
FullFlushOf(k, p) ==
    \E t \in Threads :
        /\ pc[t] \in {"submit", "descriptor"} /\ pc'[t] = "ret" /\ ret'[t] = "some"
        /\ call[t].kind = k /\ call[t].ptr = p /\ call[t].full

\* C1 as claimed: the flush state of a registered entry never regresses, in
\* no step does it move to a state of lower rank.
C1_NeverRegresses ==
    [][\A k \in Kinds : \A p \in DOMAIN MapOf(k) :
          p \in DOMAIN MapOf(k)' =>
              Rank(FlushStateOf(k, p)') >= Rank(FlushStateOf(k, p))]_vars

\* C1 amended: the flush state of a registered entry changes only at the end
\* of a flush of its pointer: every partial flush stores
\* StagingBufferFlushed, whatever the state before (also FullyCreated), a
\* successful full flush stores FullyCreated; no step stores None.
C1_FlushStateSteps ==
    [][\A k \in Kinds : \A p \in DOMAIN MapOf(k) :
          p \in DOMAIN MapOf(k)' =>
              /\ PartialFlushOf(k, p) => FlushStateOf(k, p)' = "StagingBufferFlushed"
              /\ FullFlushOf(k, p) => FlushStateOf(k, p)' = "FullyCreated"
              /\ ~PartialFlushOf(k, p) /\ ~FullFlushOf(k, p) =>
                    FlushStateOf(k, p)' = FlushStateOf(k, p)]_vars

\* C1 witness: a partial flush has returned on an entry that was
\* FullyCreated, and the entry is StagingBufferFlushed now.
C1_Witness ==
    \E t \in Threads :
        /\ FlushReturned(t)
        /\ call[t].prev = "FullyCreated"
        /\ ~call[t].full
        /\ ret[t] = "none"
        /\ FlushStateOf(call[t].kind, call[t].ptr) = "StagingBufferFlushed"

\* C2: no pointer is a key of two registry maps, and a successful allocation
\* returns a pointer that was registered in none of the maps (the insert
\* replaced no entry).
C2_PointerIdentity ==
    /\ (DOMAIN mapped_memory_cache) \cap (DOMAIN mapped_memory_cache_shader_storage) = {}
    /\ (DOMAIN mapped_memory_cache) \cap (DOMAIN mapped_memory_cache_image) = {}
    /\ (DOMAIN mapped_memory_cache_shader_storage) \cap (DOMAIN mapped_memory_cache_image) = {}
    /\ \A t \in Threads :
          pc[t] = "ret" /\ call[t].op = "alloc" /\ ret[t] = "ok" =>
              /\ call[t].prev = "absent"
              /\ call[t].ptr \in DOMAIN MapOf(call[t].kind)

\* C2 witness: an allocation has returned the second live pointer, and a
\* buffer entry and a shader storage entry share the staging cache.
C2_Witness ==
    \E t \in Threads :
        /\ pc[t] = "ret" /\ call[t].op = "alloc" /\ ret[t] = "ok"
        /\ DOMAIN mapped_memory_cache # {}
        /\ DOMAIN mapped_memory_cache_shader_storage # {}

\* C3: free of a pointer that is in none of the maps panics, removes no
\* entry, and the panicked call never returns.
C3_FreeUnknownPanics ==
    [][\A t \in Threads :
          /\ (pc[t] = "idle" /\ call'[t].op = "free" /\ call'[t].ptr \notin Registered)
                => (pc'[t] = "panicked" /\ ret'[t] = "panic" /\ UNCHANGED registry)
          /\ pc[t] = "panicked" => pc'[t] \in {"panicked", "idle"}]_vars

\* C3 witness: a free has panicked on a pointer of a page that exists while
\* nothing is registered (the pointer was freed before).
C3_Witness ==
    \E t \in Threads :
        /\ pc[t] = "panicked"
        /\ call[t].op = "free"
        /\ call[t].ptr.cache = "staging"
        /\ Len(staging_buffer_cache.pages) >= 1
        /\ Registered = {}

\* C4 as claimed: a flush of a pointer that is in none of the maps panics.
C4_FlushUnknownPanics ==
    \A t \in Threads :
        call[t].op = "flush" /\ call[t].prev = "absent" => pc[t] = "panicked"

\* C4 amended: a flush of a pointer that is not registered (in none of the
\* maps for try_flush_mem, not in its map for a flush_*_memory) returns an
\* error value, without a panic, without a device step and without a change
\* of the allocator; only the null pointer, which a flush_*_memory can be
\* given, is a panic.
C4_FlushUnknownIsError ==
    [][\A t \in Threads :
          (pc[t] = "idle" /\ call'[t].op = "flush" /\ call'[t].prev = "absent")
              => /\ trace' = <<>>
                 /\ UNCHANGED <<registry, caches, descr, device>>
                 /\ IF call'[t].ptr = NullPtr
                    THEN pc'[t] = "panicked" /\ ret'[t] = "panic"
                    ELSE pc'[t] = "ret" /\ ret'[t] = "err"]_vars

\* C4 witness: a flush of a pointer in none of the maps has returned an error.
C4_Witness ==
    \E t \in Threads :
        /\ pc[t] = "ret"
        /\ call[t].op = "flush"
        /\ call[t].prev = "absent"
        /\ call[t].ptr \notin Registered
        /\ ret[t] = "err"

\* C5: a partial flush of a registered entry returns none and leaves
\* StagingBufferFlushed; a full flush returns a (fence, command buffer) pair
\* or an error, and when it returns the pair the entry is FullyCreated, from
\* None as from StagingBufferFlushed; only a full flush returns a pair.
C5_FlushResults ==
    \A t \in Threads :
        FlushReturned(t) =>
            /\ ~call[t].full =>
                  /\ ret[t] = "none"
                  /\ FlushStateOf(call[t].kind, call[t].ptr) = "StagingBufferFlushed"
            /\ call[t].full => ret[t] \in {"some", "err"}
            /\ ret[t] = "some" =>
                  /\ call[t].full
                  /\ InTrace("submit")
                  /\ FlushStateOf(call[t].kind, call[t].ptr) = "FullyCreated"

\* C5 witness: the full flush that followed a partial flush of a fresh entry
\* has returned the pair.
C5_Witness ==
    \E t \in Threads :
        /\ FlushReturned(t)
        /\ call[t].kind = "image"
        /\ call[t].prev = "StagingBufferFlushed"
        /\ call[t].full
        /\ ret[t] = "some"
        /\ FlushStateOf(call[t].kind, call[t].ptr) = "FullyCreated"

\* the descriptor sets taken from the pools, and the ones entries hold
SetsTaken ==
    LET RECURSIVE Sum(_)
        Sum(i) == IF i = 0 THEN 0
                  ELSE shader_storage_descr_pools[i].cur_size + Sum(i - 1)
    IN Sum(Len(shader_storage_descr_pools))

SetsStored ==
    Cardinality({p \in DOMAIN mapped_memory_cache_shader_storage :
                    mapped_memory_cache_shader_storage[p].descriptor_sets # None})

\* C6 as claimed: a full flush of a shader storage entry that is FullyCreated
\* already allocates no descriptor set.
C6_BoundOnce ==
    \A t \in Threads :
        (FlushReturned(t) /\ call[t].kind = "shader_storage" /\ call[t].full
            /\ call[t].prev = "FullyCreated") => ~InTrace("descriptor")

\* C6 amended: every successful full flush of a shader storage entry, also of
\* one that is FullyCreated already, allocates exactly one descriptor set and
\* stores it in the entry, the set stored before is dropped (the pools hold
\* one set per entry that has one); a partial or failed flush allocates none
\* that stays.
C6_BoundOnEveryFullFlush ==
    /\ \A t \in Threads :
        (FlushReturned(t) /\ call[t].kind = "shader_storage") =>
            /\ ret[t] = "some" =>
                  /\ CountInTrace("descriptor") = 1
                  /\ mapped_memory_cache_shader_storage[call[t].ptr].descriptor_sets # None
            /\ ret[t] # "some" => ~InTrace("descriptor")
    /\ held_sets = <<>> => SetsTaken = SetsStored

\* C6 witness: a full flush of a shader storage entry that was FullyCreated
\* has returned after it allocated a descriptor set.
C6_Witness ==
    \E t \in Threads :
        /\ FlushReturned(t)
        /\ call[t].kind = "shader_storage"
        /\ call[t].full
        /\ call[t].prev = "FullyCreated"
        /\ ret[t] = "some"
        /\ InTrace("descriptor")

\* C7: a full flush that returns an error leaves the entry registered, in
\* the flush state it had before the call.
C7_FailedFlushKeepsState ==
    \A t \in Threads :
        (FlushReturned(t) /\ call[t].full /\ ret[t] = "err") =>
            /\ call[t].ptr \in DOMAIN MapOf(call[t].kind)
            /\ FlushStateOf(call[t].kind, call[t].ptr) = call[t].prev

\* C7 witness: the full flush of a shader storage entry has failed in the
\* descriptor set allocation, after the submit.
C7_Witness ==
    \E t \in Threads :
        /\ FlushReturned(t)
        /\ call[t].kind = "shader_storage"
        /\ call[t].full
        /\ call[t].prev = "StagingBufferFlushed"
        /\ ret[t] = "err"
        /\ InTrace("submit")

\* C8 as claimed: no full flush begins the command buffer or resets the
\* fence while the submission of an earlier full flush is pending.
C8_OneSubmissionInFlight ==
    [][/\ command_buffers = "pending" => command_buffers' # "recording"
       /\ fence = "pending" => fence' # "unsignaled"]_vars

\* the steps of a full flush, in the order of the code
FlushOrder ==
    <<"flush_range", "begin", "copy", "end", "reset_fences", "submit", "descriptor">>

InCall(t) == pc[t] # "idle"
InFlush(t) ==
    pc[t] \in {"flush_range", "begin", "copy", "end", "reset_fences", "submit",
               "descriptor"}

\* C9: the calls of the threads exclude each other: a thread inside a call
\* holds the lock, so no two threads are inside a call; the device steps
\* recorded are the steps of one flush, in order; the entry a flush works on
\* stays registered until the flush has returned.
C9_MutualExclusion ==
    /\ \A t \in Threads : InCall(t) => lock = t
    /\ \A t, u \in Threads : InCall(t) /\ InCall(u) => t = u
    /\ trace = SubSeq(FlushOrder, 1, Len(trace))
    /\ \A t \in Threads :
          InFlush(t) => call[t].ptr \in DOMAIN MapOf(call[t].kind)

\* C9 witness: one thread is in the middle of a full flush while the other
\* thread, which has allocated the second entry, is outside of any call.
C9_Witness ==
    /\ pc["t1"] = "reset_fences"
    /\ pc["t2"] = "idle"
    /\ lock = "t1"
    /\ LiveCount = 2

\* C10: a successful descriptor set request returns groups whose set counts
\* add up to set_count, each group with at least one set.
C10_SetCountSum ==
    LET res == descr_call.res
        RECURSIVE Sum(_)
        Sum(i) == IF i = 0 THEN 0 ELSE res[i].count + Sum(i - 1)
    IN descr_call.ok =>
          /\ Sum(Len(res)) = descr_call.set_count
          /\ \A i \in 1..Len(res) : res[i].count >= 1

\* C10 witness: a request was served from two pools, the first of which was
\* partly used.
C10_Witness ==
    /\ descr_call.ok
    /\ Len(descr_call.res) >= 2
    /\ descr_call.res[1].pool = 1
    /\ descr_call.res[1].count < FirstPoolSize

\* ------------------------------------------------------------------------
\* Descriptor pool growth
\* ------------------------------------------------------------------------
CeilDiv(a, b) == (a + b - 1) \div b

\* pools the last direct request has created
NewPools == Len(shader_storage_descr_pools) - descr_call.pools_before

\* C11 as claimed: a successful request of more than the default capacity
\* on freshly constructed pools creates ceil(set_count / default) pools.
C11_CeilOfDefault ==
    (descr_call.ok /\ descr_call.fresh /\ descr_call.set_count > DefaultAllocSize)
        => NewPools = CeilDiv(descr_call.set_count, DefaultAllocSize)

\* C11 amended: freshly constructed pools hold one pool of MaxTextures sets
\* already; a successful request on them creates no pool when set_count is
\* at most that capacity, and ceil((set_count - MaxTextures) / default)
\* pools otherwise.
C11_CeilOfRest ==
    (descr_call.ok /\ descr_call.fresh)
        => NewPools = IF descr_call.set_count <= FirstPoolSize THEN 0
                      ELSE CeilDiv(descr_call.set_count - FirstPoolSize,
                                   DefaultAllocSize)

\* C11 witness: a request on freshly constructed pools has used up the first
\* pool and created two pools of the default size.
C11_Witness ==
    /\ descr_call.ok
    /\ descr_call.fresh
    /\ descr_call.set_count > FirstPoolSize + DefaultAllocSize
    /\ NewPools = 2

\* C12: in every step, every pool holds at most as many sets as its
\* capacity (no request takes more than what is left in the pool), the
\* capacity of a pool that exists does not change, and no pool is removed.
C12_PoolCapacity ==
    [][/\ \A i \in 1..Len(shader_storage_descr_pools') :
             /\ shader_storage_descr_pools'[i].cur_size >= 0
             /\ shader_storage_descr_pools'[i].cur_size
                    <= shader_storage_descr_pools'[i].size
       /\ Len(shader_storage_descr_pools') >= Len(shader_storage_descr_pools)
       /\ \A i \in 1..Len(shader_storage_descr_pools) :
             shader_storage_descr_pools'[i].size = shader_storage_descr_pools[i].size]_vars

\* C12 witness: a request has filled the first pool and a pool of the
\* default size to their capacities, after sets were released.
C12_Witness ==
    /\ descr_call.ok
    /\ ~descr_call.fresh
    /\ Len(shader_storage_descr_pools) >= 2
    /\ shader_storage_descr_pools[1].cur_size = FirstPoolSize
    /\ shader_storage_descr_pools[2].cur_size = DefaultAllocSize

\* ------------------------------------------------------------------------
\* Free of registered entries
\* ------------------------------------------------------------------------
\* the step is a call of free_mem_raw by thread t on a registered pointer
FreeOfRegistered(t) ==
    /\ pc[t] = "idle"
    /\ call'[t].op = "free"
    /\ call'[t].ptr \in Registered

\* the entries of the maps other than the one of pointer p stay as they are
OtherEntriesKept(p) ==
    \A k \in Kinds : \A q \in (DOMAIN MapOf(k)) \ {p} :
        q \in DOMAIN MapOf(k)' /\ MapOf(k)'[q] = MapOf(k)[q]

\* C13: free of a registered pointer returns without a panic whatever the
\* flush state and the kind of its entry, removes that entry and no other,
\* and touches neither the command buffer nor the fence (no begin, no
\* copy, no submit).
C13_FreeOfRegistered ==
    [][\A t \in Threads :
          FreeOfRegistered(t) =>
              /\ pc'[t] = "ret"
              /\ ret'[t] = "ok"
              /\ Registered' = Registered \ {call'[t].ptr}
              /\ LiveCount' = LiveCount - 1
              /\ OtherEntriesKept(call'[t].ptr)
              /\ trace' = <<>>
              /\ UNCHANGED device]_vars

\* C13 witness: an image entry was freed in state StagingBufferFlushed while
\* another entry stays registered.
C13_Witness ==
    \E t \in Threads :
        /\ pc[t] = "ret" /\ call[t].op = "free" /\ ret[t] = "ok"
        /\ call[t].kind = "image"
        /\ call[t].prev = "StagingBufferFlushed"
        /\ call[t].ptr \notin Registered
        /\ LiveCount = 1

\* ------------------------------------------------------------------------
\* Memory caches
\* ------------------------------------------------------------------------
\* the step is a free, by thread t, of buffer entry p, which was never flushed
FreeOfFreshBuffer(t, p) ==
    /\ pc[t] = "idle"
    /\ call'[t].op = "free"
    /\ call'[t].ptr = p
    /\ p \in DOMAIN mapped_memory_cache
    /\ mapped_memory_cache[p].is_flushed = "None"

\* the step gives the two blocks of entry e back and creates no page
BlocksReturned(e) ==
    /\ e.staging \in staging_buffer_cache.live
    /\ e.device \in vertex_buffer_cache.live
    /\ staging_buffer_cache' =
          [staging_buffer_cache EXCEPT !.live = @ \ {e.staging}]
    /\ vertex_buffer_cache' =
          [vertex_buffer_cache EXCEPT !.live = @ \ {e.device}]

\* after the step an allocation of the size of e finds the ranges of e free
ReusableAfter(e) ==
    /\ e.staging \in Fits(staging_buffer_cache', e.staging.size)
    /\ e.device \in Fits(vertex_buffer_cache', e.device.size)

\* the step is a successful buffer allocation by thread t that registers p
AllocOfBuffer(t, p) ==
    /\ pc[t] = "idle"
    /\ call'[t].op = "alloc" /\ call'[t].kind = "buffer" /\ ret'[t] = "ok"
    /\ call'[t].ptr = p

\* block b was carved from a free range of a page that existed, and the
\* cache has the pages it had
CarvedFromExisting(cache, cacheNext, b) ==
    /\ b \in Fits(cache, b.size)
    /\ cacheNext.pages = cache.pages

Disjoint(cache) ==
    /\ \A b \in cache.live :
          /\ b.page \in 1..Len(cache.pages)
          /\ b.off >= 0 /\ b.size >= 1
          /\ b.off + b.size <= cache.pages[b.page]
    /\ \A b1, b2 \in cache.live : b1 # b2 => ~Overlap(b1, b2)

\* the blocks the registered entries own, per cache
StagingOwned ==
    {mapped_memory_cache[p].staging : p \in DOMAIN mapped_memory_cache}
        \cup {mapped_memory_cache_shader_storage[p].base.staging :
                  p \in DOMAIN mapped_memory_cache_shader_storage}
VertexOwned == {mapped_memory_cache[p].device : p \in DOMAIN mapped_memory_cache}
ShaderStorageOwned ==
    {mapped_memory_cache_shader_storage[p].base.device :
        p \in DOMAIN mapped_memory_cache_shader_storage}
StagingImageOwned ==
    {mapped_memory_cache_image[p].staging : p \in DOMAIN mapped_memory_cache_image}
ImageOwned(bits) ==
    {mapped_memory_cache_image[p].img_mem.block :
        p \in {q \in DOMAIN mapped_memory_cache_image :
                  /\ mapped_memory_cache_image[q].img_mem.bits = bits
                  /\ mapped_memory_cache_image[q].img_mem.epoch =
                        image_buffer_caches[bits].epoch}}

\* C15: in every cache the live blocks lie inside their pages and no two of
\* them overlap; the live blocks are the blocks of the registered entries,
\* one entry per block, so the range of a block is not free (not carved
\* again) before its entry has released it.
C15_BlocksDisjoint ==
    /\ Disjoint(staging_buffer_cache)
    /\ Disjoint(staging_buffer_cache_image)
    /\ Disjoint(vertex_buffer_cache)
    /\ Disjoint(shader_storage_cache)
    /\ \A bits \in DOMAIN image_buffer_caches :
          /\ Disjoint(image_buffer_caches[bits])
          /\ image_buffer_caches[bits].live = ImageOwned(bits)
    /\ staging_buffer_cache.live = StagingOwned
    /\ Cardinality(StagingOwned) =
          Cardinality(DOMAIN mapped_memory_cache)
              + Cardinality(DOMAIN mapped_memory_cache_shader_storage)
    /\ vertex_buffer_cache.live = VertexOwned
    /\ Cardinality(VertexOwned) = Cardinality(DOMAIN mapped_memory_cache)
    /\ shader_storage_cache.live = ShaderStorageOwned
    /\ Cardinality(ShaderStorageOwned) =
          Cardinality(DOMAIN mapped_memory_cache_shader_storage)
    /\ staging_buffer_cache_image.live = StagingImageOwned
    /\ Cardinality(StagingImageOwned) = Cardinality(DOMAIN mapped_memory_cache_image)
    /\ \A p \in DOMAIN mapped_memory_cache : \A size \in 1..MaxPagesSize :
          /\ \A b \in Fits(staging_buffer_cache, size) :
                ~Overlap(b, mapped_memory_cache[p].staging)
          /\ \A b \in Fits(vertex_buffer_cache, size) :
                ~Overlap(b, mapped_memory_cache[p].device)

\* C15 witness: the staging cache is fragmented: in its first page the
\* second unit is taken and the first one, released before, is free, while
\* another block lives in another page.
C15_Witness ==
    /\ \E b \in staging_buffer_cache.live : b.page = 1 /\ b.off = 1
    /\ \A b \in staging_buffer_cache.live : b.page = 1 => b.off = 1
    /\ \E b \in staging_buffer_cache.live : b.page = 2
    /\ Fits(staging_buffer_cache, 1) # {}

\* the units of the pages of the size class that no live block holds
TotalFree(cache) ==
    Cardinality({u \in [page : {q \in 1..Len(cache.pages) : cache.pages[q] = PageSize},
                        off : 0..(PageSize - 1), size : {1}] :
                    \A l \in cache.live : ~Overlap(u, l)})

\* block b is the first block of a page the step has added to the cache
InNewPage(cache, cacheNext, b) ==
    /\ Len(cacheNext.pages) = Len(cache.pages) + 1
    /\ SubSeq(cacheNext.pages, 1, Len(cache.pages)) = cache.pages
    /\ b.page = Len(cacheNext.pages)
    /\ cacheNext.pages[b.page] = b.size

\* C16: a buffer allocation larger than the page size class gets a new page
\* in the staging cache and in the device cache, whatever pages exist; an
\* allocation of the smallest size creates no page in a cache whose pages of
\* the size class have a free unit, and is carved from one of them.
C16_OversizedAndSmall ==
    [][\A t \in Threads : \A p \in DOMAIN mapped_memory_cache' :
          AllocOfBuffer(t, p) =>
              /\ mapped_memory_cache'[p].staging.size > PageSize =>
                    /\ InNewPage(staging_buffer_cache, staging_buffer_cache',
                                 mapped_memory_cache'[p].staging)
                    /\ InNewPage(vertex_buffer_cache, vertex_buffer_cache',
                                 mapped_memory_cache'[p].device)
              /\ (mapped_memory_cache'[p].staging.size = 1
                     /\ TotalFree(staging_buffer_cache) >= 1) =>
                    CarvedFromExisting(staging_buffer_cache, staging_buffer_cache',
                                       mapped_memory_cache'[p].staging)
              /\ (mapped_memory_cache'[p].device.size = 1
                     /\ TotalFree(vertex_buffer_cache) >= 1) =>
                    CarvedFromExisting(vertex_buffer_cache, vertex_buffer_cache',
                                       mapped_memory_cache'[p].device)]_vars

\* C16 witness: after an allocation of a whole page, and an oversized one
\* that was freed again, two allocations of the smallest size lie in one
\* page; the second of them has just returned.
C16_Witness ==
    \E t \in Threads :
        /\ pc[t] = "ret" /\ call[t].op = "alloc" /\ ret[t] = "ok"
        /\ staging_buffer_cache.pages = <<PageSize, PageSize + 1, PageSize>>
        /\ staging_buffer_cache.live =
              {[page |-> 1, off |-> 0, size |-> PageSize],
               [page |-> 3, off |-> 0, size |-> 1],
               [page |-> 3, off |-> 1, size |-> 1]}


\* ------------------------------------------------------------------------
\* Image dimensions over the whole machine word
\* ------------------------------------------------------------------------
\* images are allocated with every width, height and depth a usize holds,
\* next to buffers, and freed again
NextDims ==
    \/ /\ LiveCount < MaxLive
       /\ \E required_size \in 1..MaxSize :
             get_staging_buffer_for_mem_alloc("t1", required_size)
    \/ /\ LiveCount < MaxLive
       /\ \E width \in UsizeValues, height \in UsizeValues, depth \in UsizeValues :
             get_staging_buffer_image_for_mem_alloc("t1", width, height, depth)
    \/ \E mem \in Registered : free_mem_raw("t1", mem)
    \/ Return("t1")
    \/ Unwind("t1")

SpecDims == Init /\ [][NextDims]_vars

\* C17: an image allocation whose width, height or depth is above the
\* maximum texture dimension, or whose width * height * depth is above the
\* square of it, returns the dimension error and reserves no memory, for
\* every value of the dimensions a machine word holds.
C17_OversizedRejected ==
    [][\A width \in UsizeValues, height \in UsizeValues, depth \in UsizeValues :
          (/\ ExceedsLimit(width, height, depth)
           /\ get_staging_buffer_image_for_mem_alloc("t1", width, height, depth))
          => /\ pc'["t1"] = "ret"
             /\ ret'["t1"] = "ImageDimensionsTooBig"
             /\ UNCHANGED <<registry, caches>>]_vars

\* the live blocks of every cache; a bucket that does not exist has none
LiveBlocks ==
    [staging |-> staging_buffer_cache.live,
     staging_image |-> staging_buffer_cache_image.live,
     vertex |-> vertex_buffer_cache.live,
     shader_storage |-> shader_storage_cache.live,
     image |-> [bits \in MemTypeBits |-> ImageCacheOf(bits).live]]

\* the pages of every cache
PageCount ==
    Len(staging_buffer_cache.pages) + Len(staging_buffer_cache_image.pages)
    + Len(vertex_buffer_cache.pages) + Len(shader_storage_cache.pages)

\* thread t takes an allocation from its call to its return with an error
\* that came after the staging block was reserved
AllocFailsLate(t) ==
    /\ pc[t] = "idle"
    /\ pc'[t] = "ret"
    /\ call'[t].op = "alloc"
    /\ ret'[t] \in LateAllocErrors

\* C18: an allocation that fails after its staging block was reserved (the
\* device block, the image, the image memory or the bind fails) returns an
\* error in the same call, without a second attempt (no cache gets more than
\* the one page of the one staging request), adds no entry to a registry
\* map, and leaves the live blocks of every cache as they were: the staging
\* block is released.
C18_LateFailureRestores ==
    [][\A t \in Threads :
          AllocFailsLate(t) =>
             /\ UNCHANGED registry
             /\ LiveBlocks' = LiveBlocks
             /\ call'[t].ptr = NoPtr
             /\ PageCount' <= PageCount + 1
             /\ vertex_buffer_cache' = vertex_buffer_cache
             /\ shader_storage_cache' = shader_storage_cache]_vars

\* the bind of an image failed in a cold allocator: the staging page and the
\* image page exist, no block is live, nothing is registered
C18_Witness ==
    \E t \in Threads :
        /\ pc[t] = "ret"
        /\ call[t].op = "alloc"
        /\ ret[t] = "err_bind"
        /\ Registered = {}
        /\ staging_buffer_cache_image = [pages |-> <<PageSize>>, live |-> {}]
        /\ \E bits \in DOMAIN image_buffer_caches :
              /\ image_buffer_caches[bits].pages = <<PageSize>>
              /\ image_buffer_caches[bits].live = {}

\* ------------------------------------------------------------------------
\* Probe order of free
\* ------------------------------------------------------------------------
\* the free of thread t probed the maps in `order`, stopped at the first one
\* that had the pointer, and removed the entry from that map only
FreeProbedIn(order, t) ==
    LET p == call'[t].ptr
        probed == call'[t].probed
        last == probed[Len(probed)]
    IN /\ probed = ProbesUntilFound(order, p)
       /\ p \in DOMAIN MapOf(last)
       /\ \A i \in 1..(Len(probed) - 1) : p \notin DOMAIN MapOf(probed[i])
       /\ call'[t].kind = last
       /\ \A k \in Kinds :
             IF k = last
             THEN DOMAIN MapOf(k)' = (DOMAIN MapOf(k)) \ {p}
             ELSE MapOf(k)' = MapOf(k)

\* C19 as claimed: free probes the buffer map, then the shader storage map,
\* then the image map, stops at the first map that has the pointer and
\* removes the entry from that map only.
C19_BufferShaderStorageImage ==
    [][\A t \in Threads :
          FreeOfRegistered(t) =>
              FreeProbedIn(<<"buffer", "shader_storage", "image">>, t)]_vars

\* C19 amended: free probes the buffer map, then the image map, then the
\* shader storage map, stops at the first map that has the pointer and
\* removes the entry from that map only.
C19_BufferImageShaderStorage ==
    [][\A t \in Threads :
          FreeOfRegistered(t) =>
              FreeProbedIn(<<"buffer", "image", "shader_storage">>, t)]_vars

\* C19 witness: a shader storage entry was freed after the buffer map and
\* the image map were probed for it, while an image entry is registered.
C19_Witness ==
    \E t \in Threads :
        /\ pc[t] = "ret" /\ call[t].op = "free" /\ ret[t] = "ok"
        /\ call[t].kind = "shader_storage"
        /\ call[t].probed = <<"buffer", "image", "shader_storage">>
        /\ mapped_memory_cache_image # EmptyMap

\* ------------------------------------------------------------------------
\* destroy_caches
\* ------------------------------------------------------------------------
\* the step is a call of destroy_caches by thread t
DestroysCaches(t) ==
    /\ pc[t] = "idle"
    /\ call'[t].op = "destroy_caches"

\* the step is an image allocation of thread t that succeeds while
\* image_buffer_caches has no bucket
AllocOfImageWithoutBucket(t) ==
    /\ pc[t] = "idle"
    /\ call'[t].op = "alloc"
    /\ call'[t].kind = "image"
    /\ ret'[t] = "ok"
    /\ image_buffer_caches = EmptyMap

\* C20: destroy_caches leaves image_buffer_caches without a bucket and
\* changes nothing else: the staging, staging image, vertex buffer and shader
\* storage caches, the three registry maps with the flush state of every
\* entry, the descriptor pools and the device state are as before.  An image
\* allocation that finds no bucket creates the one bucket of its memory type
\* bits, empty, and carves its image memory from it.
C20_DestroyCachesFrame ==
    [][\A t \in Threads :
          /\ DestroysCaches(t) =>
                /\ pc'[t] = "ret"
                /\ ret'[t] = "ok"
                /\ DOMAIN image_buffer_caches' = {}
                /\ UNCHANGED <<registry, staging_buffer_cache,
                               staging_buffer_cache_image, vertex_buffer_cache,
                               shader_storage_cache, descr, device>>
          /\ AllocOfImageWithoutBucket(t) =>
                LET img_mem == mapped_memory_cache_image'[call'[t].ptr].img_mem
                IN /\ DOMAIN image_buffer_caches' = {img_mem.bits}
                   /\ image_buffer_caches'[img_mem.bits].live = {img_mem.block}
                   /\ Len(image_buffer_caches'[img_mem.bits].pages) = 1]_vars

\* C20 witness: an image was allocated from a bucket made again after
\* destroy_caches, while an image entry of the bucket that was destroyed is
\* still registered, its staging range flushed.
C20_Witness ==
    \E t \in Threads :
        /\ pc[t] = "ret" /\ call[t].op = "alloc" /\ ret[t] = "ok"
        /\ call[t].kind = "image"
        /\ \E q \in DOMAIN mapped_memory_cache_image :
              /\ mapped_memory_cache_image[q].img_mem.epoch #
                    mapped_memory_cache_image[call[t].ptr].img_mem.epoch
              /\ mapped_memory_cache_image[q].is_flushed = "StagingBufferFlushed"

\* ------------------------------------------------------------------------
\* Partial flush
\* ------------------------------------------------------------------------
\* the step is the call of a partial flush, by thread t, on a pointer that
\* is registered in the map the flush looks in
EntersPartialFlush(t) ==
    /\ pc[t] = "idle"
    /\ call'[t].op = "flush"
    /\ ~call'[t].full
    /\ call'[t].prev # "absent"

\* thread t is inside a partial flush
InPartialFlush(t) == InFlush(t) /\ ~call[t].full

\* the descriptor sets of the shader storage entries
DescriptorSetsOf ==
    [p \in DOMAIN mapped_memory_cache_shader_storage |->
        mapped_memory_cache_shader_storage[p].descriptor_sets]

\* C21: a partial flush of a registered pointer is accepted in every flush
\* state of the entry (also FullyCreated): it goes on to the flush of the
\* staging range and from there it returns none, never an error (the one
\* other end is the panic of the range flush itself), with the entry in
\* StagingBufferFlushed.  No step of the call begins or submits the command buffer,
\* resets the fence, or allocates or stores a descriptor set; a copy is
\* recorded by a full flush only.
C21_PartialFlushFrame ==
    [][\A t \in Threads :
          /\ EntersPartialFlush(t) =>
                /\ pc'[t] = "flush_range"
                /\ UNCHANGED <<registry, caches, descr, device>>
          /\ (InPartialFlush(t) /\ pc'[t] # pc[t]) =>
                /\ pc[t] = "flush_range"
                /\ pc'[t] \in {"ret", "panicked"}
                /\ UNCHANGED <<caches, descr, device>>
                /\ DescriptorSetsOf' = DescriptorSetsOf
                /\ pc'[t] = "ret" =>
                      /\ ret'[t] = "none"
                      /\ trace' = <<"flush_range">>
                      /\ FlushStateOf(call[t].kind, call[t].ptr)' = "StagingBufferFlushed"
          /\ (InTrace("copy"))' => \E u \in Threads : call'[u].full]_vars

\* C21 witness: a partial flush of a shader storage entry that was
\* FullyCreated has returned none; the entry keeps its descriptor set and the
\* submission of the full flush before is still pending.
C21_Witness ==
    \E t \in Threads :
        /\ FlushReturned(t)
        /\ ~call[t].full
        /\ call[t].kind = "shader_storage"
        /\ call[t].prev = "FullyCreated"
        /\ ret[t] = "none"
        /\ mapped_memory_cache_shader_storage[call[t].ptr].descriptor_sets # None
        /\ fence = "pending"

\* ------------------------------------------------------------------------
\* Order of the device calls of a flush
\* ------------------------------------------------------------------------
\* thread t is in a flush of a registered pointer, or at its return
FlushOfRegistered(t) ==
    /\ call[t].op = "flush"
    /\ call[t].prev # "absent"
    /\ pc[t] \notin {"idle", "panicked"}

\* C22: every flush of a registered pointer, partial or full and in every
\* flush state of the entry, flushes the mapped range of the staging block
\* exactly once, as its first device call: nothing is in the trace before
\* the range flush, and every later point of the call (begin, copy, end,
\* fence reset, submit, descriptor set, return) has the one range flush at
\* the head of the trace.
C22_RangeFlushFirst ==
    \A t \in Threads :
        FlushOfRegistered(t) =>
            IF pc[t] = "flush_range"
            THEN trace = <<>>
            ELSE /\ trace # <<>>
                 /\ trace[1] = "flush_range"
                 /\ CountInTrace("flush_range") = 1

\* C22 witness: the full flush of an entry that was FullyCreated is about to
\* submit; the range flush is the first of its five device calls.
C22_Witness ==
    \E t \in Threads :
        /\ FlushOfRegistered(t)
        /\ call[t].full
        /\ call[t].prev = "FullyCreated"
        /\ pc[t] = "submit"
        /\ trace = <<"flush_range", "begin", "copy", "end", "reset_fences">>

\* the device calls of a full flush up to the submit, in the order of the
\* code
FullFlushOrder == <<"flush_range", "begin", "copy", "end", "reset_fences", "submit">>

\* the step is the queue submit of thread t that the device accepts
Submits(t) ==
    /\ pc[t] = "submit"
    /\ pc'[t] \in {"ret", "descriptor"}
    /\ ret'[t] # "err"

\* C23: the device calls of one full flush come in the order begin, copy,
\* end, fence reset, submit (after the range flush); the submit is made with
\* the fence that the fence reset of the same call left unsignaled; and an
\* entry becomes FullyCreated only in the step that ends a full flush of it
\* with the pair, with the accepted submit in the trace; until then the
\* entry has the state it had when the flush began.
C23_FullFlushOrder ==
    [][\A t \in Threads :
          /\ (InFlush(t) /\ call[t].full) =>
                /\ Len(trace) <= Len(FullFlushOrder)
                /\ trace = SubSeq(FullFlushOrder, 1, Len(trace))
                /\ FlushStateOf(call[t].kind, call[t].ptr) = call[t].prev
          /\ Submits(t) =>
                /\ trace = SubSeq(FullFlushOrder, 1, 5)
                /\ fence = "unsignaled"
                /\ fence' = "pending"
                /\ command_buffers = "executable"
          /\ \A k \in Kinds : \A p \in (DOMAIN MapOf(k)) \cap (DOMAIN MapOf(k)') :
                (FlushStateOf(k, p)' = "FullyCreated"
                    /\ FlushStateOf(k, p) # "FullyCreated") =>
                      /\ FullFlushOf(k, p)
                      /\ SubSeq(trace', 1, 6) = FullFlushOrder]_vars

\* C23 witness: the full flush of an image entry that was never flushed has
\* returned the pair after its six device calls; the entry is FullyCreated.
C23_Witness ==
    \E t \in Threads :
        /\ FlushReturned(t)
        /\ call[t].kind = "image"
        /\ call[t].prev = "None"
        /\ ret[t] = "some"
        /\ trace = FullFlushOrder
        /\ fence = "pending"
        /\ FlushStateOf("image", call[t].ptr) = "FullyCreated"

\* ------------------------------------------------------------------------
\* Flush and the registry
\* ------------------------------------------------------------------------
\* the step is a step of a flush call of thread t: the call itself, on a
\* registered pointer or not, or a later step of it up to its return
FlushStepOf(t) ==
    /\ pc'[t] # pc[t]
    /\ \/ pc[t] = "idle" /\ call'[t].op \in {"flush", "flush_vector"}
       \/ InFlush(t)

\* the blocks (and the cache of the image memory) entry e of kind k owns
EntryBlocks(k, e) ==
    IF k = "buffer" THEN <<e.staging, e.device>>
    ELSE IF k = "shader_storage" THEN <<e.base.staging, e.base.device>>
    ELSE <<e.staging, e.img_mem>>

\* C24: no step of a flush call (partial or full, ending with a result, an
\* error or a panic, on a registered pointer or not) adds or removes a key
\* of a registry map; the entries other than the flushed one are unchanged
\* (flush state, blocks, descriptor set), and the flushed entry keeps its
\* blocks.
C24_FlushKeepsRegistry ==
    [][\A t \in Threads :
          FlushStepOf(t) =>
              \A k \in Kinds :
                  /\ DOMAIN MapOf(k)' = DOMAIN MapOf(k)
                  /\ \A q \in DOMAIN MapOf(k) :
                        /\ EntryBlocks(k, MapOf(k)'[q]) = EntryBlocks(k, MapOf(k)[q])
                        /\ (k # call'[t].kind \/ q # call'[t].ptr) =>
                              MapOf(k)'[q] = MapOf(k)[q]]_vars

\* C24 witness: a full flush of a buffer entry has returned the pair while a
\* second entry is registered, its staging range flushed.
C24_Witness ==
    \E t \in Threads :
        /\ FlushReturned(t)
        /\ call[t].kind = "buffer"
        /\ call[t].full
        /\ ret[t] = "some"
        /\ \E k \in Kinds : \E q \in (DOMAIN MapOf(k)) \ {call[t].ptr} :
              FlushStateOf(k, q) = "StagingBufferFlushed"

\* ------------------------------------------------------------------------
\* Probe order of flush
\* ------------------------------------------------------------------------
\* the step is a call of try_flush_mem by thread t on a registered pointer
TryFlushOfRegistered(t) ==
    /\ pc[t] = "idle"
    /\ call'[t].op = "flush"
    /\ call'[t].probed # <<>>
    /\ call'[t].ptr \in Registered

\* C25 as claimed: try_flush_mem probes the maps in the order in which
\* free_mem_raw probes them.
C25_SameProbeOrder ==
    [][\A t \in Threads :
          TryFlushOfRegistered(t) =>
              call'[t].probed = ProbesUntilFound(FreeProbeOrder, call'[t].ptr)]_vars

\* C25 amended: try_flush_mem and free_mem_raw each probe the maps in a
\* fixed order, but not in the same one: try_flush_mem probes the image map,
\* then the buffer map, then the shader storage map, free_mem_raw the buffer
\* map, then the image map, then the shader storage map.  Both stop at the
\* first map that has the pointer, and both end at the same map.
C25_OwnProbeOrders ==
    [][\A t \in Threads :
          /\ TryFlushOfRegistered(t) =>
                LET probed == call'[t].probed IN
                /\ probed = ProbesUntilFound(<<"image", "buffer", "shader_storage">>,
                                             call'[t].ptr)
                /\ call'[t].kind = probed[Len(probed)]
                /\ call'[t].kind = FreeKind(call'[t].ptr)
          /\ FreeOfRegistered(t) =>
                LET probed == call'[t].probed IN
                /\ probed = ProbesUntilFound(<<"buffer", "image", "shader_storage">>,
                                             call'[t].ptr)
                /\ call'[t].kind = probed[Len(probed)]
                /\ call'[t].kind = FlushKind(call'[t].ptr)]_vars

\* C25 witness: try_flush_mem has flushed a buffer entry after it probed the
\* image map and then the buffer map.
C25_Witness ==
    \E t \in Threads :
        /\ FlushReturned(t)
        /\ call[t].kind = "buffer"
        /\ call[t].probed = <<"image", "buffer">>
        /\ ret[t] = "none"

\* ------------------------------------------------------------------------
\* Descriptor set of a shader storage entry
\* ------------------------------------------------------------------------
\* C26: a shader storage entry is registered without a descriptor set and
\* has none while its flush state is None; whenever its flush state is
\* FullyCreated it has one; its descriptor set changes only in the step that
\* ends a full flush of it with the pair, which stores one: a partial flush,
\* a failed flush and the calls on other entries neither set nor clear it.
C26_DescriptorSetLifecycle ==
    [][/\ \A p \in DOMAIN mapped_memory_cache_shader_storage' :
            LET e == mapped_memory_cache_shader_storage'[p] IN
            /\ e.base.is_flushed = "FullyCreated" => e.descriptor_sets # None
            /\ e.base.is_flushed = "None" => e.descriptor_sets = None
            /\ p \notin DOMAIN mapped_memory_cache_shader_storage =>
                  /\ e.descriptor_sets = None
                  /\ e.base.is_flushed = "None"
       /\ \A p \in (DOMAIN mapped_memory_cache_shader_storage)
                      \cap (DOMAIN mapped_memory_cache_shader_storage') :
            DescriptorSetsOf'[p] # DescriptorSetsOf[p] =>
                /\ FullFlushOf("shader_storage", p)
                /\ DescriptorSetsOf'[p] # None]_vars

\* C26 witness: of two shader storage entries one is FullyCreated and has a
\* descriptor set; for the other one, which has none, a partial flush has
\* returned.
C26_Witness ==
    \E t \in Threads :
        /\ FlushReturned(t)
        /\ ~call[t].full
        /\ call[t].kind = "shader_storage"
        /\ mapped_memory_cache_shader_storage[call[t].ptr].descriptor_sets = None
        /\ \E q \in DOMAIN mapped_memory_cache_shader_storage :
              /\ mapped_memory_cache_shader_storage[q].base.is_flushed = "FullyCreated"
              /\ mapped_memory_cache_shader_storage[q].descriptor_sets # None
\* ------------------------------------------------------------------------
\* Walk over the descriptor pools
\* ------------------------------------------------------------------------
\* what is left in a pool
RemainingCapacity(pool) == pool.size - pool.cur_size

\* The groups a request of `needed` sets is to get from pools i, i+1, ...
\* of `pools` and, past the last of them, from new pools of the default
\* capacity numbered from i on: a pool without remaining capacity gives
\* no group, any other gives min(remaining capacity, sets still needed).
RECURSIVE WalkInCreationOrder(_, _, _)
WalkInCreationOrder(pools, i, needed) ==
    IF needed = 0 THEN <<>>
    ELSE IF i > Len(pools)
    THEN <<[pool |-> i, count |-> Min(DefaultAllocSize, needed)]>>
            \o WalkInCreationOrder(pools, i + 1, needed - Min(DefaultAllocSize, needed))
    ELSE IF RemainingCapacity(pools[i]) = 0
    THEN WalkInCreationOrder(pools, i + 1, needed)
    ELSE <<[pool |-> i, count |-> Min(RemainingCapacity(pools[i]), needed)]>>
            \o WalkInCreationOrder(pools, i + 1,
                                   needed - Min(RemainingCapacity(pools[i]), needed))

RECURSIVE TotalRemaining(_)
TotalRemaining(pools) ==
    IF pools = <<>> THEN 0
    ELSE RemainingCapacity(Head(pools)) + TotalRemaining(Tail(pools))

\* C27: a successful request walks the pools in creation order, skips the
\* pools without remaining capacity, takes min(remaining capacity, sets
\* still needed) from every other pool it visits, and appends a pool, of
\* exactly the default capacity, only when sets are still needed and no
\* existing pool has remaining capacity; a request that fits in the
\* existing pools creates none, and the existing pools keep their capacity.
C27_WalksPoolsInOrder ==
    [][\A set_count \in 0..MaxSetCount : \A fail \in 0..MaxSetCount :
          (AllocateSets(set_count, fail) /\ descr_call'.ok) =>
              LET before == shader_storage_descr_pools
                  after == shader_storage_descr_pools'
                  res == descr_call'.res
              IN /\ res = WalkInCreationOrder(before, 1, set_count)
                 /\ Len(after) >= Len(before)
                 /\ \A i \in 1..Len(before) : after[i].size = before[i].size
                 /\ \A i \in (Len(before) + 1)..Len(after) :
                       after[i].size = DefaultAllocSize
                 /\ Len(after) > Len(before) =>
                       /\ set_count > TotalRemaining(before)
                       /\ \A i \in 1..Len(before) : RemainingCapacity(after[i]) = 0
                 /\ set_count <= TotalRemaining(before) => Len(after) = Len(before)
                 /\ \A i \in 1..Len(after) :
                       after[i].cur_size =
                           (IF i <= Len(before) THEN before[i].cur_size ELSE 0)
                             + (IF \E k \in 1..Len(res) : res[k].pool = i
                                THEN res[CHOOSE k \in 1..Len(res) : res[k].pool = i].count
                                ELSE 0)]_vars

\* C27 witness: a request has skipped a full first pool, taken what was
\* left in the second, and got the rest from a pool it appended.
C27_Witness ==
    /\ descr_call.ok
    /\ Len(descr_call.res) = 2
    /\ descr_call.res[1].pool = 2
    /\ descr_call.pools_before = 2
    /\ descr_call.res[2].pool = 3
    /\ RemainingCapacity(shader_storage_descr_pools[1]) = 0
\* ------------------------------------------------------------------------
\* Buffer offsets of split descriptor set requests
\* ------------------------------------------------------------------------
\* the sets of the groups before group k of the last request
RECURSIVE SetsBefore(_)
SetsBefore(k) ==
    IF k <= 1 THEN 0 ELSE descr_call.res[k - 1].count + SetsBefore(k - 1)

\* the offsets the sets of the last request are bound at, over all groups
RECURSIVE BoundOfGroups(_)
BoundOfGroups(k) ==
    IF k = 0 THEN <<>> ELSE BoundOfGroups(k - 1) \o descr_call.bound[k]

\* C28: a successful request for bound descriptor sets binds group k at
\* memory_offset + single_buffer_instance_size * (sets of the groups before
\* k), and so set i of the request, counted over the groups, at
\* memory_offset + i * single_buffer_instance_size: one instance each, no
\* instance left out and none bound twice.
C28_BoundWithoutGapOrOverlap ==
    descr_call.ok =>
        LET size == descr_call.single_buffer_instance_size
            all == BoundOfGroups(Len(descr_call.bound))
        IN /\ Len(descr_call.bound) = Len(descr_call.res)
           /\ \A k \in 1..Len(descr_call.res) :
                 /\ Len(descr_call.bound[k]) = descr_call.res[k].count
                 /\ descr_call.bound[k][1]
                       = descr_call.memory_offset + size * SetsBefore(k)
           /\ Len(all) = descr_call.set_count
           /\ \A i \in 1..Len(all) :
                 all[i] = descr_call.memory_offset + (i - 1) * size
           /\ \A i, j \in 1..Len(all) :
                 i < j => all[i] + size <= all[j]

\* C28 witness: a request was split over three pools, the second group
\* with more than one set, at an offset into the buffer and with instances
\* of more than one byte.
C28_Witness ==
    /\ descr_call.ok
    /\ Len(descr_call.res) = 3
    /\ descr_call.res[2].count >= 2
    /\ descr_call.memory_offset > 0
    /\ descr_call.single_buffer_instance_size > 1
    /\ descr_call.bound[3][1]
          = descr_call.memory_offset
              + descr_call.single_buffer_instance_size
                  * (descr_call.res[1].count + descr_call.res[2].count)
\* ------------------------------------------------------------------------
\* What a registered entry owns
\* ------------------------------------------------------------------------
\* thread t takes an allocation of `kind` from its call to its return with
\* a pointer
AllocSucceeds(t, kind) ==
    /\ pc[t] = "idle"
    /\ pc'[t] = "ret"
    /\ call'[t].op = "alloc"
    /\ call'[t].kind = kind
    /\ ret'[t] = "ok"

\* the image memory block is live in the bucket it was carved from, as long
\* as destroy_caches has not dropped that bucket
ImageMemoryReserved(buckets, img_mem) ==
    (/\ img_mem.bits \in DOMAIN buckets
     /\ buckets[img_mem.bits].epoch = img_mem.epoch)
        => img_mem.block \in buckets[img_mem.bits].live

\* every registered entry has its staging block and its device side block
\* reserved in the caches they were carved from, and shares neither with
\* another entry
EntriesOwnBlocks ==
    /\ \A p \in DOMAIN mapped_memory_cache :
          /\ mapped_memory_cache[p].staging \in staging_buffer_cache.live
          /\ mapped_memory_cache[p].device \in vertex_buffer_cache.live
    /\ \A p \in DOMAIN mapped_memory_cache_shader_storage :
          /\ mapped_memory_cache_shader_storage[p].base.staging
                \in staging_buffer_cache.live
          /\ mapped_memory_cache_shader_storage[p].base.device
                \in shader_storage_cache.live
    /\ \A p \in DOMAIN mapped_memory_cache_image :
          /\ mapped_memory_cache_image[p].staging \in staging_buffer_cache_image.live
          /\ ImageMemoryReserved(image_buffer_caches, mapped_memory_cache_image[p].img_mem)
    /\ \A p, q \in DOMAIN mapped_memory_cache :
          p # q => /\ mapped_memory_cache[p].staging # mapped_memory_cache[q].staging
                   /\ mapped_memory_cache[p].device # mapped_memory_cache[q].device
    /\ \A p, q \in DOMAIN mapped_memory_cache_shader_storage :
          p # q => /\ mapped_memory_cache_shader_storage[p].base.staging
                        # mapped_memory_cache_shader_storage[q].base.staging
                   /\ mapped_memory_cache_shader_storage[p].base.device
                        # mapped_memory_cache_shader_storage[q].base.device
    /\ \A p, q \in DOMAIN mapped_memory_cache_image :
          p # q => /\ mapped_memory_cache_image[p].staging
                        # mapped_memory_cache_image[q].staging
                   /\ mapped_memory_cache_image[p].img_mem
                        # mapped_memory_cache_image[q].img_mem
    /\ \A p \in DOMAIN mapped_memory_cache :
          \A q \in DOMAIN mapped_memory_cache_shader_storage :
             mapped_memory_cache[p].staging
                # mapped_memory_cache_shader_storage[q].base.staging

\* C29: an allocation that returns a pointer has reserved a staging block
\* and a device side block (the image memory block for an image) that were
\* free before, and has registered one entry, under the returned pointer,
\* in the map of the requested kind and in no other, with flush state None
\* and, for shader storage, no descriptor set; in every state every
\* registered entry owns a reserved staging block and a reserved device
\* side block of its own.
C29_EntryOwnsStagingAndDevice ==
    /\ []EntriesOwnBlocks
    /\ [][\A t \in Threads : \A kind \in Kinds :
            AllocSucceeds(t, kind) =>
               LET p == call'[t].ptr
                   e == MapOf(kind)'[p]
                   base == IF kind = "shader_storage" THEN e.base ELSE e
               IN /\ p \notin Registered
                  /\ Registered' = Registered \cup {p}
                  /\ DOMAIN MapOf(kind)' = (DOMAIN MapOf(kind)) \cup {p}
                  /\ \A k \in Kinds \ {kind} : MapOf(k)' = MapOf(k)
                  /\ \A q \in DOMAIN MapOf(kind) : MapOf(kind)'[q] = MapOf(kind)[q]
                  /\ base.is_flushed = "None"
                  /\ kind = "shader_storage" => e.descriptor_sets = None
                  /\ kind = "buffer" =>
                        /\ e.staging \in staging_buffer_cache'.live \ staging_buffer_cache.live
                        /\ e.device \in vertex_buffer_cache'.live \ vertex_buffer_cache.live
                  /\ kind = "shader_storage" =>
                        /\ base.staging
                              \in staging_buffer_cache'.live \ staging_buffer_cache.live
                        /\ base.device
                              \in shader_storage_cache'.live \ shader_storage_cache.live
                  /\ kind = "image" =>
                        /\ e.staging \in staging_buffer_cache_image'.live
                                            \ staging_buffer_cache_image.live
                        /\ e.img_mem.bits \in DOMAIN image_buffer_caches'
                        /\ image_buffer_caches'[e.img_mem.bits].epoch = e.img_mem.epoch
                        /\ e.img_mem.block \in image_buffer_caches'[e.img_mem.bits].live
                        /\ e.img_mem.block \notin ImageCacheOf(e.img_mem.bits).live]_vars

\* C29 witness: an entry of each of two kinds is registered, the second by
\* the allocation that has just returned its pointer, an image entry among
\* them.
C29_Witness ==
    \E t \in Threads :
        /\ pc[t] = "ret"
        /\ call[t].op = "alloc"
        /\ ret[t] = "ok"
        /\ call[t].kind = "shader_storage"
        /\ call[t].ptr \in DOMAIN mapped_memory_cache_shader_storage
        /\ mapped_memory_cache_shader_storage[call[t].ptr].descriptor_sets = None
        /\ mapped_memory_cache_image # EmptyMap
\* ------------------------------------------------------------------------
\* An image without memory type
\* ------------------------------------------------------------------------
\* thread t takes an image allocation from its call to its return with the
\* error NoMemoryHeap
AllocFindsNoMemoryHeap(t) ==
    /\ pc[t] = "idle"
    /\ pc'[t] = "ret"
    /\ call'[t].op = "alloc"
    /\ call'[t].kind = "image"
    /\ ret'[t] = "NoMemoryHeap"

\* C30: memory type bits of 0 never get a bucket of image memory nor an
\* entry; the image allocation they are reported to returns NoMemoryHeap
\* (not the error of a failed page creation) in the same call, without a
\* second attempt, and leaves the buckets, the registry maps and the live
\* blocks as they were.
C30_NoMemoryHeap ==
    /\ [](/\ 0 \notin DOMAIN image_buffer_caches
          /\ \A p \in DOMAIN mapped_memory_cache_image :
                mapped_memory_cache_image[p].img_mem.bits # 0)
    /\ [][\A t \in Threads :
            AllocFindsNoMemoryHeap(t) =>
               /\ ret'[t] \notin {"ok", "err", "err_image", "err_image_memory",
                                   "err_bind", "ImageDimensionsTooBig"}
               /\ call'[t].ptr = NoPtr
               /\ image_buffer_caches' = image_buffer_caches
               /\ UNCHANGED registry
               /\ LiveBlocks' = LiveBlocks
               /\ PageCount' <= PageCount + 1]_vars

\* C30 witness: the first image allocation of a cold allocator has returned
\* NoMemoryHeap: the staging page exists, its block is released, and there
\* is neither a bucket nor an entry.
C30_Witness ==
    \E t \in Threads :
        /\ pc[t] = "ret"
        /\ call[t].op = "alloc"
        /\ ret[t] = "NoMemoryHeap"
        /\ image_buffer_caches = EmptyMap
        /\ Registered = {}
        /\ staging_buffer_cache_image = [pages |-> <<PageSize>>, live |-> {}]
\* ------------------------------------------------------------------------
\* Buckets of image memory
\* ------------------------------------------------------------------------
\* images are allocated on a device that reports any of several memory type
\* bits (or none), freed again, and the caches are destroyed
NextImages ==
    \/ /\ LiveCount < MaxLive
       /\ \E width \in 1..MaxDim, height \in 1..MaxDim, depth \in 1..MaxDim :
             get_staging_buffer_image_for_mem_alloc_on("t1", width, height, depth,
                                                       0..MaxMemTypeBits)
    \/ \E mem \in Registered : free_mem_raw("t1", mem)
    \/ destroy_caches("t1")
    \/ Return("t1")

SpecImages == Init /\ [][NextImages]_vars

\* the bits get_image_memory was called with in this step, as far as the
\* step shows them: the bits of the new entry, or the bits of the bucket
\* that a failed call has created or added a page to
RequestedBits(t) ==
    IF ret'[t] = "ok"
    THEN {mapped_memory_cache_image'[call'[t].ptr].img_mem.bits}
    ELSE {bits \in DOMAIN image_buffer_caches' :
             \/ bits \notin DOMAIN image_buffer_caches
             \/ image_buffer_caches'[bits] # image_buffer_caches[bits]}

\* thread t takes an image allocation from its call to its return
AllocOfImage(t) ==
    /\ pc[t] = "idle"
    /\ pc'[t] = "ret"
    /\ call'[t].op = "alloc"
    /\ call'[t].kind = "image"

\* the blocks of the entries that were carved from the bucket of `bits`
BlocksOfBucket(bits) ==
    {mapped_memory_cache_image[p].img_mem.block :
        p \in {q \in DOMAIN mapped_memory_cache_image :
                  /\ mapped_memory_cache_image[q].img_mem.bits = bits
                  /\ mapped_memory_cache_image[q].img_mem.epoch
                        = image_buffer_caches[bits].epoch}}

\* C31: image memory is kept in one bucket per memory type bits.  An image
\* allocation adds at most the bucket of the bits it asks get_image_memory
\* for, and only when there is none; a bucket that exists is used as it is
\* (the same bucket, with the pages and blocks it has); the buckets of other
\* bits are untouched; the blocks live in a bucket are those of the entries
\* of its bits.  No step but destroy_caches removes a bucket, and
\* destroy_caches removes all: the keys are the bits asked for since.
C31_OneBucketPerBits ==
    /\ [](\A bits \in DOMAIN image_buffer_caches :
            image_buffer_caches[bits].live = BlocksOfBucket(bits))
    /\ [][\A t \in Threads :
            /\ AllocOfImage(t) =>
                  /\ Cardinality(RequestedBits(t)) <= 1
                  /\ ret'[t] \notin {"ok", "err_image_memory", "err_bind"}
                        => RequestedBits(t) = {}
                  /\ DOMAIN image_buffer_caches'
                        = (DOMAIN image_buffer_caches) \cup RequestedBits(t)
                  /\ \A bits \in DOMAIN image_buffer_caches :
                        /\ image_buffer_caches'[bits].epoch
                              = image_buffer_caches[bits].epoch
                        /\ image_buffer_caches[bits].live
                              \subseteq image_buffer_caches'[bits].live
                        /\ Len(image_buffer_caches'[bits].pages)
                              >= Len(image_buffer_caches[bits].pages)
                        /\ \A i \in 1..Len(image_buffer_caches[bits].pages) :
                              image_buffer_caches'[bits].pages[i]
                                 = image_buffer_caches[bits].pages[i]
                        /\ bits \notin RequestedBits(t)
                              => image_buffer_caches'[bits] = image_buffer_caches[bits]
                  /\ \A bits \in RequestedBits(t) \ DOMAIN image_buffer_caches :
                        Len(image_buffer_caches'[bits].pages) <= 1
            /\ (call'[t].op = "destroy_caches" /\ pc[t] = "idle") =>
                  image_buffer_caches' = EmptyMap
            /\ (\A u \in Threads :
                   call'[u].op \notin {"destroy_caches", "alloc"} \/ pc[u] # "idle") =>
                  DOMAIN image_buffer_caches' = DOMAIN image_buffer_caches]_vars

\* C31 witness: two image entries of the same bits share one bucket, next
\* to the bucket of other bits that an earlier allocation has left.
C31_Witness ==
    \E p, q \in DOMAIN mapped_memory_cache_image :
        /\ p # q
        /\ mapped_memory_cache_image[p].img_mem.bits
              = mapped_memory_cache_image[q].img_mem.bits
        /\ mapped_memory_cache_image[p].img_mem.epoch
              = mapped_memory_cache_image[q].img_mem.epoch
        /\ Cardinality(DOMAIN image_buffer_caches) = 2
        /\ \A bits \in DOMAIN image_buffer_caches :
              image_buffer_caches[bits].live # {}
                 <=> bits = mapped_memory_cache_image[p].img_mem.bits
\* ------------------------------------------------------------------------
\* Mip levels of an image
\* ------------------------------------------------------------------------
\* the limits of a device that takes images of more than one texel
MipLimits(optimal_rgba_image_blitting) ==
    [max_texture_size |-> MipTextureSize,
     optimal_rgba_image_blitting |-> optimal_rgba_image_blitting,
     memory_type_bits |-> MemoryTypeBitsReported]

\* 2D images with and without TEXFLAG_NOMIPMAPS are allocated on such a
\* device, flushed and freed, one at a time
NextMips ==
    \/ /\ Registered = {}
       /\ \E width \in 1..MaxDim, height \in 1..MaxDim, depth \in {1} :
             \E flags \in TexFlagsValues : \E optimal_rgba_image_blitting \in BOOLEAN :
                get_staging_buffer_image_for_mem_alloc_with("t1", width, height, depth,
                    flags, MipLimits(optimal_rgba_image_blitting))
    \/ \E mem \in Registered : \E full \in BOOLEAN : try_flush_mem("t1", mem, full)
    \/ FlushMappedMemoryRanges("t1")
    \/ start_command_buffer("t1")
    \/ RecordCopy("t1")
    \/ EndCommandBuffer("t1")
    \/ ResetFences("t1")
    \/ QueueSubmit("t1")
    \/ DeviceComplete
    \/ \E mem \in Registered : free_mem_raw("t1", mem)
    \/ Return("t1")
    \/ Unwind("t1")

SpecMips == Init /\ [][NextMips]_vars

\* the level count flush_img_memory passes to complete_texture
CopyMipMapCount(t) == mapped_memory_cache_image[call[t].ptr].data.mip_map_count

\* C32: the mip level count of a new image entry, and of the device image
\* created for it, is 1 when TEXFLAG_NOMIPMAPS is set or the device does
\* not blit RGBA images, and the level count of the image's width and
\* height otherwise; no step changes either count while the entry is
\* registered, so the count the copy of a full flush is recorded with is
\* the count the image was created with.
C32_MipLevelCount ==
    /\ [](/\ \A p \in DOMAIN mapped_memory_cache_image :
                mapped_memory_cache_image[p].data.mip_map_count
                   = mapped_memory_cache_image[p].img.mip_levels
          /\ \A t \in Threads :
                (pc[t] = "copy" /\ call[t].kind = "image") =>
                   CopyMipMapCount(t)
                      = mapped_memory_cache_image[call[t].ptr].img.mip_levels)
    /\ [][/\ \A width \in 1..MaxDim, height \in 1..MaxDim, depth \in {1} :
              \A flags \in TexFlagsValues : \A optimal_rgba_image_blitting \in BOOLEAN :
                 (/\ get_staging_buffer_image_for_mem_alloc_with("t1", width, height,
                         depth, flags, MipLimits(optimal_rgba_image_blitting))
                  /\ ret'["t1"] = "ok") =>
                    LET e == mapped_memory_cache_image'[call'["t1"].ptr]
                        levels == IF "TEXFLAG_NOMIPMAPS" \in flags
                                     \/ ~optimal_rgba_image_blitting
                                  THEN 1
                                  ELSE CHOOSE n \in 1..UsizeBits :
                                          /\ 2 ^ (n - 1) <= Max(width, height)
                                          /\ Max(width, height) < 2 ^ n
                    IN /\ e.data.mip_map_count = levels
                       /\ e.img.mip_levels = levels
           /\ \A p \in (DOMAIN mapped_memory_cache_image)
                        \cap (DOMAIN mapped_memory_cache_image') :
                 /\ mapped_memory_cache_image'[p].data = mapped_memory_cache_image[p].data
                 /\ mapped_memory_cache_image'[p].img = mapped_memory_cache_image[p].img]_vars

\* C32 witness: an image with a mip chain of two levels was copied to the
\* device by a full flush.
C32_Witness ==
    \E p \in DOMAIN mapped_memory_cache_image :
        /\ mapped_memory_cache_image[p].data.mip_map_count = 2
        /\ mapped_memory_cache_image[p].img.mip_levels = 2
        /\ mapped_memory_cache_image[p].is_flushed = "FullyCreated"
\* ------------------------------------------------------------------------
\* Conversion of graphics memory
\* ------------------------------------------------------------------------
\* a Vec of n bytes, filled with byte b
Filled(n, b) == [i \in 1..n |-> b]

\* the usages of caller memory, with the texels a texture of the usage has
VectorUsages ==
    {[usage |-> VertexBufferUsage, len |-> n] : n \in 1..MaxSize}
    \cup {[usage |-> ShaderStorageUsage, len |-> n] : n \in 1..MaxSize}
    \cup {[usage |-> TextureRgbaU8Usage(w, h, f), len |-> w * h] :
             w \in 1..MaxDim, h \in 1..MaxDim, f \in TexFlagsValues}
    \cup {[usage |-> TextureRgbaU82dArrayUsage(w, h, d, f), len |-> w * h * d] :
             w \in 1..MaxDim, h \in 1..MaxDim, d \in 1..MaxDim, f \in TexFlagsValues}

\* caller memory: a Vec of the size of its usage
VectorMemories ==
    {GraphicsBackendMemoryNew(VectorAllocation(Filled(u.len, b)), u.usage) :
        u \in VectorUsages, b \in 0..MaxByte}

\* allocator memory: a pointer the caller holds, declared with any usage
StaticMemories ==
    {GraphicsBackendMemoryNew(StaticAllocation(p), usage) :
        p \in CallerPtrs,
        usage \in {VertexBufferUsage, ShaderStorageUsage,
                   TextureRgbaU8Usage(1, 1, {}),
                   TextureRgbaU82dArrayUsage(1, 1, 1, {})}}

\* graphics memory is converted and freed
NextMemory ==
    \/ /\ LiveCount < MaxLive
       /\ \E mem \in VectorMemories : memory_to_internal_memory("t1", mem)
    \/ \E mem \in StaticMemories : memory_to_internal_memory("t1", mem)
    \/ \E mem \in Registered : free_mem_raw("t1", mem)
    \/ Return("t1")
    \/ Unwind("t1")

SpecMemory == Init /\ [][NextMemory]_vars

\* the registry map of a usage
MapKindOfUsage(usage) ==
    IF usage.ty = "VertexBuffer" THEN "buffer"
    ELSE IF usage.ty = "ShaderStorage" THEN "shader_storage"
    ELSE "image"

\* thread t takes memory_to_internal_memory on caller memory from its call
\* to its return
ConvertsVector(t) ==
    /\ pc[t] = "idle"
    /\ pc'[t] = "ret"
    /\ call'[t].op = "alloc"
    /\ "mem" \in DOMAIN call'[t]

\* C33: memory_to_internal_memory on caller memory that returns has either
\* succeeded, with exactly one new entry, under the returned pointer, in
\* the map of the declared usage and no other change of the registry, or
\* failed, handing back the memory it was given (the same bytes, the same
\* usage) with the error and leaving the three maps unchanged.
C33_VectorMemoryHandedBack ==
    [][\A t \in Threads :
          ConvertsVector(t) =>
             LET mem == call'[t].mem
                 p == call'[t].ptr
             IN IF ret'[t] = "ok"
                THEN /\ p \notin Registered
                     /\ \A kind \in Kinds :
                           IF kind = MapKindOfUsage(mem.usage)
                           THEN /\ DOMAIN MapOf(kind)' = (DOMAIN MapOf(kind)) \cup {p}
                                /\ \A q \in DOMAIN MapOf(kind) :
                                      MapOf(kind)'[q] = MapOf(kind)[q]
                           ELSE MapOf(kind)' = MapOf(kind)
                     /\ call'[t].returned = NoMemory
                ELSE /\ UNCHANGED registry
                     /\ p = NoPtr
                     /\ call'[t].returned = mem
                     /\ call'[t].returned.alloc.tag = "Vector"
                     /\ call'[t].returned.alloc.m = mem.alloc.m
                     /\ call'[t].returned.usage = mem.usage]_vars

\* C33 witness: the conversion of a texture of two texels has failed and
\* handed the two texels back, while a vertex buffer is registered.
C33_Witness ==
    \E t \in Threads :
        /\ pc[t] = "ret"
        /\ call[t].op = "alloc"
        /\ "mem" \in DOMAIN call[t]
        /\ ret[t] # "ok"
        /\ call[t].mem.usage.ty = "TextureRgbaU8"
        /\ call[t].returned.alloc.m = <<1, 1>>
        /\ mapped_memory_cache # EmptyMap

\* thread t makes the step of memory_to_internal_memory on allocator memory
ConvertsStatic(t) ==
    /\ pc[t] = "idle"
    /\ call'[t].op = "memory_to_internal_memory"

\* C34: memory_to_internal_memory on allocator memory returns if the
\* pointer is registered in the map of the declared usage, and panics if it
\* is not (unregistered, or registered in another map); the three maps are
\* unchanged.
C34_StaticMemoryLookedUp ==
    [][\A t \in Threads :
          ConvertsStatic(t) =>
             LET mem == call'[t].mem
                 known == mem.alloc.ptr \in DOMAIN MapOf(MapKindOfUsage(mem.usage))
             IN /\ pc'[t] \in {"ret", "panicked"}
                /\ pc'[t] = "ret" <=> known
                /\ pc'[t] = "ret" => ret'[t] = "ok"
                /\ UNCHANGED registry]_vars

\* C34 witness: the conversion of a pointer that is registered as a vertex
\* buffer and was declared as shader storage has panicked.
C34_Witness ==
    \E t \in Threads :
        /\ pc[t] = "panicked"
        /\ call[t].op = "memory_to_internal_memory"
        /\ call[t].mem.usage.ty = "ShaderStorage"
        /\ call[t].ptr \in DOMAIN mapped_memory_cache
\* ------------------------------------------------------------------------
\* Failed flushes and the device
\* ------------------------------------------------------------------------
\* C35 as claimed: a flush that has returned an error has submitted no
\* command buffer to the queue during the call, whatever the kind of the
\* entry.
C35_ErrorMeansNothingSubmitted ==
    \A t \in Threads :
        (FlushReturned(t) /\ ret[t] = "err") => ~InTrace("submit")

\* C36 as claimed: begin_command_buffer is never called on the command
\* buffer while it is in the recording state, which a failed full flush may
\* have left behind.
C36_BeginNeverOnRecording ==
    [][\A t \in Threads :
          (pc[t] = "begin" /\ pc'[t] # "begin") => command_buffers # "recording"]_vars

\* ------------------------------------------------------------------------
\* Termination of the descriptor set allocation
\* ------------------------------------------------------------------------
\* the pools the last request appended to the pool group
PoolsAppended == Len(shader_storage_descr_pools) - descr_call.pools_before

\* C37: get_descriptor_pool_for_alloc comes to an end for every set_count
\* and every state of the pool group (the default capacity is at least 1):
\* every group it returns has at least one set, so there are at most
\* set_count groups, and at most ceil(set_count / default capacity) pools
\* were appended, also by a request that failed; a request for no set
\* succeeds with an empty list and appends no pool.
C37_TerminatesWithinCeilPools ==
    /\ DefaultAllocSize >= 1
    /\ descr_call # NoDescrCall =>
          /\ \A i \in 1..Len(descr_call.res) : descr_call.res[i].count >= 1
          /\ Len(descr_call.res) <= descr_call.set_count
          /\ PoolsAppended >= 0
          /\ PoolsAppended * DefaultAllocSize < descr_call.set_count + DefaultAllocSize
          /\ descr_call.set_count = 0 =>
                /\ descr_call.ok
                /\ descr_call.res = <<>>
                /\ PoolsAppended = 0

\* C37 witness: a request for four sets found the first pool full and was
\* served from two appended pools, which is ceil(4 / 2).
C37_Witness ==
    /\ descr_call.set_count = 4
    /\ descr_call.ok
    /\ Len(descr_call.res) = 2
    /\ PoolsAppended = 2

\* ------------------------------------------------------------------------
\* Entries and Blocks are not leaked
\* ------------------------------------------------------------------------
\* the call record of get_and_remove_*: `entry` is the entry handed to the
\* caller
RemovedCall(kind, p, entry) ==
    [op |-> "get_and_remove", kind |-> kind, ptr |-> p, full |-> FALSE,
     prev |-> "none", probed |-> <<kind>>, entry |-> entry]

\* get_and_remove_mem_block, get_and_remove_shader_storage_mem_block and
\* get_and_remove_mem_block_image: the entry is removed from the one map of
\* the function and handed to the caller together with the Blocks it owns;
\* Err(()) when the map has no such pointer; a null pointer is a panic
get_and_remove(t, kind, mem) ==
    /\ CanLock(t)
    /\ trace' = <<>>
    /\ UNCHANGED <<caches, descr, device>>
    /\ IF mem = NullPtr
       THEN /\ Panics(t, RemovedCall(kind, mem, None))
            /\ UNCHANGED registry
       ELSE IF mem \in DOMAIN MapOf(kind)
       THEN /\ Returns(t, RemovedCall(kind, mem, Some(MapOf(kind)[mem])), "ok")
            /\ mapped_memory_cache' =
                 IF kind = "buffer" THEN Remove(mapped_memory_cache, mem)
                 ELSE mapped_memory_cache
            /\ mapped_memory_cache_shader_storage' =
                 IF kind = "shader_storage"
                 THEN Remove(mapped_memory_cache_shader_storage, mem)
                 ELSE mapped_memory_cache_shader_storage
            /\ mapped_memory_cache_image' =
                 IF kind = "image" THEN Remove(mapped_memory_cache_image, mem)
                 ELSE mapped_memory_cache_image
       ELSE /\ Returns(t, RemovedCall(kind, mem, None), "err")
            /\ UNCHANGED registry

get_and_remove_mem_block(t, mem) == get_and_remove(t, "buffer", mem)

get_and_remove_shader_storage_mem_block(t, mem) == get_and_remove(t, "shader_storage", mem)

get_and_remove_mem_block_image(t, mem) == get_and_remove(t, "image", mem)

\* thread t was handed an entry by get_and_remove_* and has not dropped it
HoldsEntry(t) ==
    /\ pc[t] \in {"ret", "holding"}
    /\ call[t].op = "get_and_remove"
    /\ ret[t] = "ok"

\* the caller of get_and_remove_* drops the guard of the allocator and
\* keeps the entry
KeepEntry(t) ==
    /\ pc[t] = "ret"
    /\ HoldsEntry(t)
    /\ lock = t
    /\ lock' = NoThread
    /\ pc' = [pc EXCEPT ![t] = "holding"]
    /\ trace' = <<>>
    /\ UNCHANGED <<registry, caches, descr, device, call, ret>>

\* the caller drops the entry it was handed: the Blocks of the entry go
\* back to their caches, the descriptor set of a shader storage entry to
\* its pool
DropEntry(t) ==
    /\ pc[t] = "holding"
    /\ pc' = [pc EXCEPT ![t] = "idle"]
    /\ call' = [call EXCEPT ![t] = NoCall]
    /\ ret' = [ret EXCEPT ![t] = "none"]
    /\ UNCHANGED <<registry, device, lock, trace, held_sets, descr_call>>
    /\ LET kind == call[t].kind
           e == call[t].entry[1]
       IN /\ staging_buffer_cache' =
               IF kind = "buffer" THEN Release(staging_buffer_cache, e.staging)
               ELSE IF kind = "shader_storage"
               THEN Release(staging_buffer_cache, e.base.staging)
               ELSE staging_buffer_cache
          /\ vertex_buffer_cache' =
               IF kind = "buffer" THEN Release(vertex_buffer_cache, e.device)
               ELSE vertex_buffer_cache
          /\ shader_storage_cache' =
               IF kind = "shader_storage" THEN Release(shader_storage_cache, e.base.device)
               ELSE shader_storage_cache
          /\ shader_storage_descr_pools' =
               IF kind = "shader_storage"
               THEN DropDescriptor(shader_storage_descr_pools, e.descriptor_sets)
               ELSE shader_storage_descr_pools
          /\ staging_buffer_cache_image' =
               IF kind = "image" THEN Release(staging_buffer_cache_image, e.staging)
               ELSE staging_buffer_cache_image
          /\ image_buffer_caches' =
               IF kind = "image" THEN ReleaseImageMemory(image_buffer_caches, e.img_mem)
               ELSE image_buffer_caches

\* the entries the callers hold
HeldCount == Cardinality({t \in Threads : HoldsEntry(t)})

\* the calls of one thread on the registry
LeakCalls(t) ==
    \/ /\ LiveCount + HeldCount < MaxLive
       /\ \E required_size \in 1..MaxSize :
             get_staging_buffer_for_mem_alloc(t, required_size)
    \/ /\ LiveCount + HeldCount < MaxLive
       /\ \E required_size \in 1..MaxSize :
             get_staging_buffer_for_shader_storage_mem_alloc(t, required_size)
    \/ /\ LiveCount + HeldCount < MaxLive
       /\ \E width \in 1..MaxDim, height \in 1..MaxDim :
             get_staging_buffer_image_for_mem_alloc(t, width, height, 1)
    \/ \E mem \in CallerPtrs : free_mem_raw(t, mem)
    \/ \E mem \in RawPtrs : get_and_remove_mem_block(t, mem)
    \/ \E mem \in RawPtrs : get_and_remove_shader_storage_mem_block(t, mem)
    \/ \E mem \in RawPtrs : get_and_remove_mem_block_image(t, mem)
    \/ /\ ~HoldsEntry(t)
       /\ Return(t)
    \/ KeepEntry(t)
    \/ DropEntry(t)
    \/ Unwind(t)

\* allocation, flush of the staging range, free and removal by two threads
NextLeak ==
    \/ \E t \in Threads : LeakCalls(t)
    \/ \E mem \in Registered : try_flush_mem("t1", mem, FALSE)
    \/ FlushMappedMemoryRanges("t1")

SpecLeak == Init /\ [][NextLeak]_vars

\* the entries of `kind` that exist: those in the map and those handed to a
\* caller that has not dropped them
EntriesOf(kind) ==
    {MapOf(kind)[p] : p \in DOMAIN MapOf(kind)}
        \cup {call[t].entry[1] : t \in {u \in Threads : HoldsEntry(u) /\ call[u].kind = kind}}

\* every Block that is taken in a cache is the Block of an entry that
\* exists, and the Blocks of the registry are taken
NoBlockLeaked ==
    /\ staging_buffer_cache.live =
          {e.staging : e \in EntriesOf("buffer")}
             \cup {e.base.staging : e \in EntriesOf("shader_storage")}
    /\ vertex_buffer_cache.live = {e.device : e \in EntriesOf("buffer")}
    /\ shader_storage_cache.live = {e.base.device : e \in EntriesOf("shader_storage")}
    /\ staging_buffer_cache_image.live = {e.staging : e \in EntriesOf("image")}
    /\ \A bits \in DOMAIN image_buffer_caches :
          image_buffer_caches[bits].live =
             {e.img_mem.block : e \in {f \in EntriesOf("image") : f.img_mem.bits = bits}}

\* all the pointers were freed and no caller holds an entry: the maps are
\* empty and no Block is taken in any cache
AllFreedLeavesNothing ==
    (Registered = {} /\ HeldCount = 0) =>
        /\ LiveCount = 0
        /\ staging_buffer_cache.live = {}
        /\ staging_buffer_cache_image.live = {}
        /\ vertex_buffer_cache.live = {}
        /\ shader_storage_cache.live = {}
        /\ \A bits \in DOMAIN image_buffer_caches : image_buffer_caches[bits].live = {}

\* thread t takes a call from its start to its return or its panic
CallOf(t) == pc[t] = "idle" /\ pc'[t] # "idle"

\* the call of thread t is an allocation that returns a pointer
AllocatesEntry(t) ==
    CallOf(t) /\ call'[t].op = "alloc" /\ ret'[t] = "ok"

\* the call of thread t is a free or a get_and_remove_* that returns Ok
RemovesEntry(t) ==
    CallOf(t) /\ call'[t].op \in {"free", "get_and_remove"} /\ ret'[t] = "ok"

\* the taken Blocks of all caches, by cache
TakenBlocks ==
    <<staging_buffer_cache.live, staging_buffer_cache_image.live,
      vertex_buffer_cache.live, shader_storage_cache.live,
      [bits \in DOMAIN image_buffer_caches |-> image_buffer_caches[bits].live]>>

\* C38: no entry and no Block is leaked.  An allocation that returns a
\* pointer adds one entry, a free or a get_and_remove_* that succeeds takes
\* one entry away, and no other step (a failed allocation, a flush, a
\* failed removal, a return) changes the number of entries; a free gives
\* back exactly the Blocks of the entry it removed, a get_and_remove_*
\* hands them to the caller with the entry, whose drop gives back exactly
\* them; in every state the Blocks taken in the caches are the Blocks of
\* the entries that exist, so that once every pointer was freed the maps
\* are empty and no Block is taken.
C38_NoEntryOrBlockLeaked ==
    /\ [](NoBlockLeaked /\ AllFreedLeavesNothing)
    /\ [][/\ (\E t \in Threads : AllocatesEntry(t)) => LiveCount' = LiveCount + 1
          /\ (\E t \in Threads : RemovesEntry(t)) => LiveCount' = LiveCount - 1
          /\ (\A t \in Threads : ~AllocatesEntry(t) /\ ~RemovesEntry(t)) =>
                /\ LiveCount' = LiveCount
                /\ Registered' = Registered
          /\ \A t \in Threads :
                (RemovesEntry(t) /\ call'[t].op = "get_and_remove") =>
                   /\ TakenBlocks' = TakenBlocks
                   /\ \A kind \in Kinds :
                         call'[t].kind = kind =>
                            /\ call'[t].ptr \in DOMAIN MapOf(kind)
                            /\ call'[t].entry = Some(MapOf(kind)[call'[t].ptr])
                            /\ call'[t].ptr \notin DOMAIN MapOf(kind)'
          /\ \A t \in Threads :
                (RemovesEntry(t) /\ call'[t].op = "free") =>
                   \A kind \in Kinds :
                      call'[t].kind = kind =>
                         LET e == MapOf(kind)[call'[t].ptr]
                             base == IF kind = "shader_storage" THEN e.base ELSE e
                         IN /\ call'[t].ptr \notin Registered'
                            /\ kind \in {"buffer", "shader_storage"} =>
                                  /\ base.staging \in staging_buffer_cache.live
                                  /\ staging_buffer_cache'.live =
                                        staging_buffer_cache.live \ {base.staging}
                                  /\ UNCHANGED <<staging_buffer_cache_image,
                                                 image_buffer_caches>>
                            /\ kind = "buffer" =>
                                  /\ base.device \in vertex_buffer_cache.live
                                  /\ vertex_buffer_cache'.live =
                                        vertex_buffer_cache.live \ {base.device}
                                  /\ UNCHANGED shader_storage_cache
                            /\ kind = "shader_storage" =>
                                  /\ base.device \in shader_storage_cache.live
                                  /\ shader_storage_cache'.live =
                                        shader_storage_cache.live \ {base.device}
                                  /\ UNCHANGED vertex_buffer_cache
                            /\ kind = "image" =>
                                  /\ e.staging \in staging_buffer_cache_image.live
                                  /\ staging_buffer_cache_image'.live =
                                        staging_buffer_cache_image.live \ {e.staging}
                                  /\ e.img_mem.block
                                        \in image_buffer_caches[e.img_mem.bits].live
                                  /\ image_buffer_caches'[e.img_mem.bits].live =
                                        image_buffer_caches[e.img_mem.bits].live
                                           \ {e.img_mem.block}
                                  /\ UNCHANGED <<staging_buffer_cache, vertex_buffer_cache,
                                                 shader_storage_cache>>]_vars

\* C38 witness: buffer and image entries were allocated and removed again,
\* the last one by the free of an image that has just returned: the maps
\* are empty and no caller holds an entry, while the caches have pages.
C38_Witness ==
    /\ Registered = {}
    /\ HeldCount = 0
    /\ staging_buffer_cache.pages # <<>>
    /\ staging_buffer_cache_image.pages # <<>>
    /\ staging_buffer_cache.live = {}
    /\ \E t \in Threads :
          /\ pc[t] = "ret"
          /\ call[t].op = "free"
          /\ call[t].kind = "image"
          /\ ret[t] = "ok"

\* ------------------------------------------------------------------------
\* The inner locks
\* ------------------------------------------------------------------------
\* the parking_lot mutexes other than the one around the allocator: the
\* queue, the descriptor pools and the memory caches
CacheLocks ==
    {"staging_buffer_cache", "staging_buffer_cache_image", "vertex_buffer_cache",
     "shader_storage_cache", "image_buffer_caches"}

InnerLocks == {"queue", "pools"} \cup CacheLocks

\* the memory caches an allocation of `kind` takes Blocks from, in the
\* order of the calls into Memory; each call is given one cache and locks
\* it for the time of the call
CachePlan(kind) ==
    IF kind = "buffer" THEN <<"staging_buffer_cache", "vertex_buffer_cache">>
    ELSE IF kind = "shader_storage" THEN <<"staging_buffer_cache", "shader_storage_cache">>
    ELSE <<"staging_buffer_cache_image", "image_buffer_caches">>

\* the inner locks a flush takes: execute_command_buffer locks the queue
\* for the submit, create_shader_storage_descriptor_sets, which is called
\* after execute_command_buffer has returned, locks the descriptor pools
FlushPlan(kind, full_flush) ==
    IF ~full_flush THEN <<>>
    ELSE IF kind = "shader_storage" THEN <<"queue", "pools">>
    ELSE <<"queue">>

\* the inner locks an operation of the allocator takes, in order
LockPlan(op, kind, full_flush) ==
    IF op = "alloc" THEN CachePlan(kind)
    ELSE IF op = "free" THEN CachePlan(kind)
    ELSE IF op = "flush" THEN FlushPlan(kind, full_flush)
    ELSE <<>>

\* the call record of an operation seen as a user of locks: `plan` are the
\* inner locks it has yet to take, `held` the ones it holds
LockCall(op, kind, full_flush, plan) ==
    [op |-> op, kind |-> kind, ptr |-> NoPtr, full |-> full_flush, prev |-> "none",
     probed |-> <<>>, plan |-> plan, held |-> {}]

\* the inner locks thread t holds
HeldBy(t) == IF "held" \in DOMAIN call[t] THEN call[t].held ELSE {}

\* the inner lock thread t is about to take
Wants(t) ==
    IF pc[t] \in {"plan", "user"} /\ call[t].plan # <<>>
    THEN {Head(call[t].plan)} ELSE {}

\* no thread holds the inner lock
Unheld(l) == \A u \in Threads : l \notin HeldBy(u)

\* a mutant of Unlocked: the guard is kept until the operation returns
UnlockedAtReturn(held, l) == held

\* the guard of an inner lock is dropped at the end of the block or of the
\* function that took it
Unlocked(held, l) == held \ {l}

\* an operation of the allocator is called: the caller has locked the
\* allocator (every operation takes &mut self)
EnterCall(t, op, kind, full_flush) ==
    /\ CanLock(t)
    /\ lock' = t
    /\ pc' = [pc EXCEPT ![t] = "plan"]
    /\ call' = [call EXCEPT ![t] = LockCall(op, kind, full_flush,
                                            LockPlan(op, kind, full_flush))]
    /\ UNCHANGED <<registry, caches, descr, device, ret, trace>>

\* the operation takes the next inner lock of its plan; it waits as long
\* as the lock is held
AcquireInner(t) ==
    /\ pc[t] = "plan"
    /\ call[t].plan # <<>>
    /\ Unheld(Head(call[t].plan))
    /\ pc' = [pc EXCEPT ![t] = "using"]
    /\ call' = [call EXCEPT ![t].held = @ \cup {Head(call[t].plan)}]
    /\ UNCHANGED <<registry, caches, descr, device, lock, ret, trace>>

\* the work under the inner lock is done and the guard is dropped; an
\* error of the work ends the operation (`?`)
ReleaseInner(t) ==
    /\ pc[t] = "using"
    /\ pc' = [pc EXCEPT ![t] = "plan"]
    /\ \E failed \in BOOLEAN :
          call' = [call EXCEPT
                     ![t].held = Unlocked(@, Head(call[t].plan)),
                     ![t].plan = IF failed THEN <<>> ELSE Tail(@)]
    /\ UNCHANGED <<registry, caches, descr, device, lock, ret, trace>>

\* the operation returns and the caller unlocks the allocator
LeaveCall(t) ==
    /\ pc[t] = "plan"
    /\ call[t].plan = <<>>
    /\ lock = t
    /\ lock' = NoThread
    /\ pc' = [pc EXCEPT ![t] = "idle"]
    /\ call' = [call EXCEPT ![t] = NoCall]
    /\ UNCHANGED <<registry, caches, descr, device, ret, trace>>

\* the orders in which another user of the inner locks may take one or two
\* of them
UserPlans ==
    {<<l>> : l \in InnerLocks}
        \cup {plan \in {<<l, m>> : l \in {"queue", "pools"}, m \in InnerLocks} :
                  plan[1] # plan[2]}

\* a thread that is not in a call of the allocator starts to use inner
\* locks, as get_descriptor_pool_for_alloc does when it is called on the
\* pools from outside the allocator
UserStarts(t, plan) ==
    /\ pc[t] = "idle"
    /\ lock # t
    /\ pc' = [pc EXCEPT ![t] = "user"]
    /\ call' = [call EXCEPT ![t] = LockCall("user", "none", FALSE, plan)]
    /\ UNCHANGED <<registry, caches, descr, device, lock, ret, trace>>

\* the user takes its next inner lock and keeps the ones it holds
UserAcquires(t) ==
    /\ pc[t] = "user"
    /\ call[t].plan # <<>>
    /\ Unheld(Head(call[t].plan))
    /\ call' = [call EXCEPT ![t].held = @ \cup {Head(call[t].plan)},
                            ![t].plan = Tail(@)]
    /\ UNCHANGED <<registry, caches, descr, device, lock, pc, ret, trace>>

\* the user drops its guards
UserLeaves(t) ==
    /\ pc[t] = "user"
    /\ call[t].plan = <<>>
    /\ pc' = [pc EXCEPT ![t] = "idle"]
    /\ call' = [call EXCEPT ![t] = NoCall]
    /\ UNCHANGED <<registry, caches, descr, device, lock, ret, trace>>

\* the operations of the allocator called by two threads, one of which
\* also uses the inner locks outside of the allocator
NextLocks ==
    \/ \E t \in Threads : \E kind \in Kinds : EnterCall(t, "alloc", kind, FALSE)
    \/ \E t \in Threads : \E kind \in Kinds : \E full_flush \in BOOLEAN :
          EnterCall(t, "flush", kind, full_flush)
    \/ \E t \in Threads : \E kind \in Kinds : EnterCall(t, "free", kind, FALSE)
    \/ \E t \in Threads : AcquireInner(t)
    \/ \E t \in Threads : ReleaseInner(t)
    \/ \E t \in Threads : LeaveCall(t)
    \/ \E plan \in UserPlans : UserStarts("t2", plan)
    \/ UserAcquires("t2")
    \/ UserLeaves("t2")

SpecLocks == Init /\ [][NextLocks]_vars

\* thread t is in an operation of the allocator
InAllocator(t) == pc[t] \in {"plan", "using"}

\* thread t waits for an inner lock that thread u holds
WaitsFor(t, u) == Wants(t) \cap HeldBy(u) # {}

\* a set of threads each of which waits for a lock that a thread of the set
\* holds
Deadlocked == \E S \in (SUBSET Threads) \ {{}} : \A t \in S : \E u \in S : WaitsFor(t, u)

====
